---- MODULE Spec2Model ----
(***************************************************************************)
(* Model of the pinigu-app pipeline: the categorization engine             *)
(* (utils/categorization.py, utils/manual_overrides.py) and the transfer   *)
(* capture / balance synthesis engine (utils/non_transaction_logic.py,     *)
(* utils/consolidation.py).                                                *)
(*                                                                         *)
(* Conventions.  A text (Transaction, Pattern, Category_Source) is a       *)
(* sequence of one-character strings (tokens).  Amounts and balances are   *)
(* integers (whole units).  A nullable number is <<>> (null / NaN) or      *)
(* <<v>>.  A date is a positive integer, NaT is 0.  A Transaction Key is   *)
(* the text create_transaction_key builds from the six fields before       *)
(* hashing it (the hash is taken to be collision free).                    *)
(***************************************************************************)
EXTENDS Integers, Sequences, FiniteSets, TLC

VARIABLES
    ledger,            \* st.session_state.consolidated_df: sequence of rows
    stage,             \* which pipeline step produced the session ledger
    runs,              \* number of synthesize_transactions calls so far
    rules,             \* data/mapping_rules.csv: sequence of rule rows
    pairs,             \* data/mapping_pairs.csv: sequence of pair rows
    amountOverwrites,  \* data/amount_overwrites.csv: sequence of rows
    manualOverwrites,  \* data/manual_overwrites.csv: sequence of rows
    bankMapping,       \* data/bank_mapping.csv: sequence of account rows
    balanceEntries,    \* data/balance_entries.csv: sequence of entries
    mapIn,             \* history: argument of the last apply_categorization
    ruleOrder,         \* history: order in which the last call applied rules
    synthIn,           \* history: argument of the last synthesize_transactions
    captured,          \* history: last result of get_captured_transactions
    synthetic,         \* history: last result of get_synthetic_transactions
    filesSummary,      \* data/files_summary.csv and the raw files it lists
    readOut,           \* history: last RawFileReader.read_files call
    addOut,            \* history: last add_mapping_rule call
    overrideRows,      \* history: the ledger row each instance override,
                       \* in the order of manualOverwrites, was created from
    callOut            \* history: the last call of a table operation, with
                       \* its arguments and the table it found

vars == <<ledger, stage, runs, rules, pairs, amountOverwrites,
          manualOverwrites, bankMapping, balanceEntries, mapIn, ruleOrder,
          synthIn, captured, synthetic, filesSummary, readOut, addOut,
          overrideRows, callOut>>

(***************************************************************************)
(* Bounds of the model.                                                    *)
(***************************************************************************)
MaxRows == 2
MaxRules == 2
MaxAmountOverwrites == 1
MaxManualOverwrites == 1
MaxEntries == 2
MaxRuns == 2
MaxFiles == 2
MaxStored == 2

(***************************************************************************)
(* Generic helpers.                                                        *)
(***************************************************************************)
Null == <<>>

Range(s) == {s[i] : i \in 1..Len(s)}

SeqsUpTo(S, n) == UNION {[1..k -> S] : k \in 0..n}

RECURSIVE SumSeq(_)
SumSeq(s) == IF s = <<>> THEN 0 ELSE Head(s) + SumSeq(Tail(s))

\* Concatenation of a sequence of sequences.
RECURSIVE Flatten(_)
Flatten(ss) == IF ss = <<>> THEN <<>> ELSE Head(ss) \o Flatten(Tail(ss))

MaxOf(S) == IF S = {} THEN 0
            ELSE LET x == CHOOSE y \in S : \A z \in S : z <= y IN x

(***************************************************************************)
(* str.lower() on one character and on a text.                             *)
(***************************************************************************)
LowerChar(c) == IF c = "A" THEN "a" ELSE IF c = "B" THEN "b" ELSE c

Lower(t) == [i \in 1..Len(t) |-> LowerChar(t[i])]

(***************************************************************************)
(* The anchored regex "^" + re.escape(pattern).replace("\*", ".*") + "$"   *)
(* evaluated on a text: "*" matches any run of characters, every other     *)
(* character matches itself.                                               *)
(***************************************************************************)
RECURSIVE RegexMatch(_, _)
RegexMatch(p, t) ==
    IF p = <<>> THEN t = <<>>
    ELSE IF Head(p) = "*"
         THEN RegexMatch(Tail(p), t) \/ (t # <<>> /\ RegexMatch(p, Tail(t)))
         ELSE t # <<>> /\ Head(t) = Head(p) /\ RegexMatch(Tail(p), Tail(t))

\* match_pattern(text, pattern): both sides lower-cased, then the regex.
match_pattern(text, pattern) == RegexMatch(Lower(pattern), Lower(text))

(***************************************************************************)
(* Ledger rows.  The key is the text create_transaction_key formats and   *)
(* hashes: the Transaction Date, Bank, Account, Transaction, Amount and    *)
(* Balance of the row it is given, one after the other with nothing in     *)
(* between.  A timestamp has a fixed width and Bank and Account names of   *)
(* the model are not prefixes of one another, so each of them is one       *)
(* token; Transaction, Amount and Balance contribute their characters.     *)
(***************************************************************************)
Digit(d) ==
    CASE d = 0 -> "0" [] d = 1 -> "1" [] d = 2 -> "2" [] d = 3 -> "3"
      [] d = 4 -> "4" [] d = 5 -> "5" [] d = 6 -> "6" [] d = 7 -> "7"
      [] d = 8 -> "8" [] d = 9 -> "9"

RECURSIVE Digits(_)
Digits(n) == IF n < 10 THEN <<Digit(n)>>
             ELSE Digits(n \div 10) \o <<Digit(n % 10)>>

\* str(x) of a float holding a whole number: sign, digits, ".0".
FormatFloat(x) ==
    IF x < 0 THEN <<"-">> \o Digits(0 - x) \o <<".", "0">>
    ELSE Digits(x) \o <<".", "0">>

\* A null number is formatted as "nan".
FormatNullable(v) == IF v = <<>> THEN <<"nan">> ELSE FormatFloat(v[1])

\* A timestamp, or "NaT".
FormatDate(d) == IF d = 0 THEN <<"NaT">> ELSE <<ToString(d)>>

create_transaction_key(row) ==
    FormatDate(row.TransactionDate) \o <<row.Bank>> \o <<row.Account>>
      \o row.Transaction \o FormatFloat(row.Amount)
      \o FormatNullable(row.Balance)

(***************************************************************************)
(* utils/categorization.py: rule and pair tables.                          *)
(***************************************************************************)
\* load_mapping_rules: rules LEFT JOIN pairs on Pair_ID.  A rule whose
\* Pair_ID is not in the pairs table gets NaN for the pair's columns.
JoinRule(ps, r) ==
    LET hit == SelectSeq(ps, LAMBDA p : p.Pair_ID = r.Pair_ID)
        row(p) == [Rule_ID |-> r.Rule_ID, Pattern |-> r.Pattern,
                   Category |-> p.Category, SubCategory |-> p.SubCategory,
                   Direction |-> p.Direction, Priority |-> r.Priority,
                   Is_Wildcard |-> r.Is_Wildcard]
    IN  IF hit = <<>>
        THEN << row([Category |-> "NaN", SubCategory |-> "NaN",
                     Direction |-> "NaN"]) >>
        ELSE [i \in 1..Len(hit) |-> row(hit[i])]

load_mapping_rules(rs, ps) ==
    Flatten([i \in 1..Len(rs) |-> JoinRule(ps, rs[i])])

\* The sort with ascending=False: highest priority applied first.
IsAscending_Descending(joined, ord) ==
    \A i, j \in 1..Len(ord) :
        i < j => joined[ord[i]].Priority >= joined[ord[j]].Priority

\* The orders rules.sort_values('Priority', ascending=True) can produce:
\* ascending priority, rules of equal priority in any order.
IsAscending(joined, ord) ==
    \A i, j \in 1..Len(ord) :
        i < j => joined[ord[i]].Priority <= joined[ord[j]].Priority

RuleOrders(joined) ==
    LET n == Len(joined)
    IN  {ord \in [1..n -> 1..n] :
            /\ \A i, j \in 1..n : i # j => ord[i] # ord[j]
            /\ IsAscending(joined, ord)}

\* The duplicate check comparing the patterns as they are written.
AddRuleRaises_CaseSensitive(rs, ps, pattern, category, sub_category, direction) ==
    \/ \E i \in 1..Len(rs) : rs[i].Pattern = pattern
    \/ pattern = <<>>
    \/ category = ""
    \/ sub_category = ""
    \/ direction = ""

\* The checks without the one for required fields.
AddRuleRaises_NoRequired(rs, ps, pattern, category, sub_category, direction) ==
    \E i \in 1..Len(rs) : Lower(rs[i].Pattern) = Lower(pattern)

\* add_mapping_rule raises ValueError (and writes nothing) for a pattern
\* already stored, compared case-insensitively, or a missing field.
AddRuleRaises(rs, ps, pattern, category, sub_category, direction) ==
    \/ \E i \in 1..Len(rs) : Lower(rs[i].Pattern) = Lower(pattern)
    \/ pattern = <<>>
    \/ category = ""
    \/ sub_category = ""
    \/ direction = ""

\* The pairs table when a pair is appended for every rule.
AddRulePairs_AlwaysAppend(ps, category, sub_category, direction) ==
    Append(ps, [Pair_ID |-> MaxOf({ps[i].Pair_ID : i \in 1..Len(ps)}) + 1,
                Category |-> category,
                SubCategory |-> sub_category,
                Direction |-> direction])

\* The pairs table after add_mapping_rule: the pair is reused or appended
\* with Pair_ID = max + 1 (1 for an empty table).
AddRulePairs(ps, category, sub_category, direction) ==
    LET existing == SelectSeq(ps, LAMBDA p : /\ p.Category = category
                                             /\ p.SubCategory = sub_category
                                             /\ p.Direction = direction)
    IN  IF existing # <<>> THEN ps
        ELSE Append(ps, [Pair_ID |-> MaxOf({ps[i].Pair_ID : i \in 1..Len(ps)}) + 1,
                         Category |-> category,
                         SubCategory |-> sub_category,
                         Direction |-> direction])

AddRulePairId(ps, category, sub_category, direction) ==
    LET existing == SelectSeq(ps, LAMBDA p : /\ p.Category = category
                                             /\ p.SubCategory = sub_category
                                             /\ p.Direction = direction)
    IN  IF existing # <<>> THEN existing[1].Pair_ID
        ELSE MaxOf({ps[i].Pair_ID : i \in 1..Len(ps)}) + 1

\* priority = len(pattern) if '*' in pattern else len(pattern) + 100
PriorityOf(pattern) ==
    IF "*" \in Range(pattern) THEN Len(pattern) ELSE Len(pattern) + 100

\* The rules table after add_mapping_rule: the new rule gets
\* Rule_ID = max + 1 and the table is kept sorted by Rule_ID (new ids are
\* the largest, so the new rule is last).
AddRuleRules(rs, ps, pattern, category, sub_category, direction) ==
    Append(rs, [Rule_ID |-> MaxOf({rs[i].Rule_ID : i \in 1..Len(rs)}) + 1,
                Pattern |-> pattern,
                Pair_ID |-> AddRulePairId(ps, category, sub_category, direction),
                Priority |-> PriorityOf(pattern),
                Is_Wildcard |-> ("*" \in Range(pattern))])

\* The texts of the model's alphabet that pd.read_csv, called without
\* keep_default_na=False, reads as a missing value: the empty text, "nan",
\* "null" and "n/a" (pandas' default markers also hold upper-case ones).
DefaultNaValues == { <<>>, <<"n", "a", "n">>, <<"n", "u", "l", "l">>,
                     <<"n", "/", "a">> }

\* pd.read_csv(MAPPING_RULES_FILE) followed by to_csv(index=False) on the
\* Pattern cell: a missing value is written as the empty text.
read_csv_default(cell) == IF cell \in DefaultNaValues THEN <<>> ELSE cell

\* delete_mapping_rule(rule_id): the rules file is read with the default
\* missing-value markers, the rows with another Rule_ID are kept and the
\* file is written back; an absent file (no rule) is left alone.  The pairs
\* file is not opened.
delete_mapping_rule(rs, rule_id) ==
    LET read == [i \in 1..Len(rs) |->
                    [rs[i] EXCEPT !.Pattern = read_csv_default(@)]]
    IN  SelectSeq(read, LAMBDA r : r.Rule_ID # rule_id)

(***************************************************************************)
(* pd.read_csv type inference, as far as the tables of the model need it:  *)
(* a column whose cells are all whole numbers is read as int64, leading    *)
(* zeros of a cell being lost.                                             *)
(***************************************************************************)
DigitChars == {"0", "1", "2", "3", "4", "5", "6", "7", "8", "9"}

IsInt(text) == text # <<>> /\ \A i \in 1..Len(text) : text[i] \in DigitChars

DigitValue(c) == CHOOSE d \in 0..9 : Digit(d) = c

RECURSIVE IntValue(_)
IntValue(text) ==
    IF text = <<>> THEN 0
    ELSE IntValue(SubSeq(text, 1, Len(text) - 1)) * 10
           + DigitValue(text[Len(text)])

\* str() of a cell of a column read with keep_default_na=False and
\* na_values=['NaN']: the cell NaN is read as a missing value, a column of
\* whole numbers as int64, a column of whole numbers and missing values
\* as float64, any other column keeps its texts.
read_csv_str(column, cell) ==
    IF cell = <<"NaN">> THEN <<"nan">>
    ELSE IF \A i \in 1..Len(column) : IsInt(column[i])
         THEN Digits(IntValue(cell))
    ELSE IF \A i \in 1..Len(column) : IsInt(column[i]) \/ column[i] = <<"NaN">>
         THEN FormatFloat(IntValue(cell))
    ELSE cell

(***************************************************************************)
(* utils/manual_overrides.py: the two override tables.  Both loaders build *)
(* a dict: of the rows with the same key the last one's value is kept, at  *)
(* the position where the key first appeared.  Override_Date (a wall-clock *)
(* stamp no operation reads) is left out.                                  *)
(***************************************************************************)
AmountKey(r) == <<r.Transaction, r.Amount>>

\* The rows of data/amount_overwrites.csv as pd.read_csv returns them, with
\* str(row['Transaction']).  Amount is written by to_csv as the float it
\* is and read back as the same float.
read_amount_overwrites(file) ==
    LET column == [i \in 1..Len(file) |-> file[i].Transaction]
    IN  [i \in 1..Len(file) |->
            [file[i] EXCEPT
                !.Transaction = read_csv_str(column, file[i].Transaction)]]

RECURSIVE AmountDict(_)
AmountDict(tbl) ==
    IF tbl = <<>> THEN <<>>
    ELSE LET same == SelectSeq(tbl, LAMBDA r : AmountKey(r) = AmountKey(tbl[1]))
             rest == SelectSeq(tbl, LAMBDA r : AmountKey(r) # AmountKey(tbl[1]))
         IN  <<same[Len(same)]>> \o AmountDict(rest)

load_amount_overwrites(tbl) == AmountDict(read_amount_overwrites(tbl))

ManualKey(r) == r.Transaction_Key

RECURSIVE load_manual_overwrites(_)
load_manual_overwrites(tbl) ==
    IF tbl = <<>> THEN <<>>
    ELSE LET same == SelectSeq(tbl, LAMBDA r : ManualKey(r) = ManualKey(tbl[1]))
             rest == SelectSeq(tbl, LAMBDA r : ManualKey(r) # ManualKey(tbl[1]))
         IN  <<same[Len(same)]>> \o load_manual_overwrites(rest)

\* overwrites[key] = {...} followed by the save: the row at position hit
\* is replaced, or the row is appended when hit is empty.
DictPut(tbl, hit, new) ==
    IF hit # {}
    THEN [i \in 1..Len(tbl) |-> IF i \in hit THEN new ELSE tbl[i]]
    ELSE Append(tbl, new)

add_amount_override(tbl, transaction, amount, category, sub_category, direction) ==
    LET overwrites == load_amount_overwrites(tbl)
    IN  DictPut(overwrites,
                {i \in 1..Len(overwrites) :
                    AmountKey(overwrites[i]) = <<transaction, amount>>},
                [Transaction |-> transaction, Amount |-> amount,
                 Category |-> category, SubCategory |-> sub_category,
                 Direction |-> direction])

\* remove_amount_override: the file is written only when the key was in
\* the loaded dict.
remove_amount_override(tbl, transaction, amount) ==
    LET overwrites == load_amount_overwrites(tbl)
    IN  IF \E i \in 1..Len(overwrites) :
              AmountKey(overwrites[i]) = <<transaction, amount>>
        THEN SelectSeq(overwrites,
                       LAMBDA r : AmountKey(r) # <<transaction, amount>>)
        ELSE tbl

add_manual_override(tbl, transaction_key, category, sub_category, direction) ==
    LET overwrites == load_manual_overwrites(tbl)
    IN  DictPut(overwrites,
                {i \in 1..Len(overwrites) :
                    ManualKey(overwrites[i]) = transaction_key},
                [Transaction_Key |-> transaction_key,
                 Category |-> category, SubCategory |-> sub_category,
                 Direction |-> direction])

(***************************************************************************)
(* apply_categorization.                                                   *)
(***************************************************************************)
\* pd.to_numeric(df[col], errors='coerce').fillna(0.0) on Amount, Balance.
FillNa(row) == IF row.Balance = Null THEN [row EXCEPT !.Balance = <<0>>] ELSE row

\* One iteration of the loop over the rules: the mask is the pattern match
\* alone, and the three columns are set from the rule where it holds.
RuleMask(rule, row) == RegexMatch(Lower(rule.Pattern), Lower(row.Transaction))

ApplyRule(rule, row) ==
    IF RuleMask(rule, row)
    THEN [row EXCEPT !.Category = rule.Category,
                     !.SubCategory = rule.SubCategory,
                     !.Type = rule.Direction]
    ELSE row

RECURSIVE ApplyRules(_, _)
ApplyRules(ordered, row) ==
    IF ordered = <<>> THEN row
    ELSE ApplyRules(Tail(ordered), ApplyRule(Head(ordered), row))

\* The join with on=['Transaction'] alone.
AmountJoin_TextOnly(ao, row) ==
    LET hit == SelectSeq(ao, LAMBDA o : o.Transaction = row.Transaction)
    IN  IF hit = <<>> THEN <<row>>
        ELSE [i \in 1..Len(hit) |->
                [row EXCEPT !.Category = hit[i].Category,
                            !.SubCategory = hit[i].SubCategory,
                            !.Type = hit[i].Direction]]

\* The join with how='inner': rows without an override are dropped.
AmountJoin_Inner(ao, row) ==
    LET hit == SelectSeq(ao, LAMBDA o : /\ o.Transaction = row.Transaction
                                        /\ o.Amount = row.Amount)
    IN  [i \in 1..Len(hit) |->
            [row EXCEPT !.Category = hit[i].Category,
                        !.SubCategory = hit[i].SubCategory,
                        !.Type = hit[i].Direction]]

\* Left join with the amount overrides on [Transaction, Amount], then the
\* coalesce: one output row per matching override, the row itself if none.
AmountJoin(ao, row) ==
    LET hit == SelectSeq(ao, LAMBDA o : /\ o.Transaction = row.Transaction
                                        /\ o.Amount = row.Amount)
    IN  IF hit = <<>> THEN <<row>>
        ELSE [i \in 1..Len(hit) |->
                [row EXCEPT !.Category = hit[i].Category,
                            !.SubCategory = hit[i].SubCategory,
                            !.Type = hit[i].Direction]]

\* Left join with the instance overrides on _key, then the coalesce.  key
\* is the _key column computed before the rules were applied.
ManualJoin(mo, key, row) ==
    LET hit == SelectSeq(mo, LAMBDA o : o.Transaction_Key = key)
    IN  IF hit = <<>> THEN <<row>>
        ELSE [i \in 1..Len(hit) |->
                [row EXCEPT !.Category = hit[i].Category,
                            !.SubCategory = hit[i].SubCategory,
                            !.Type = hit[i].Direction]]

\* The tiers with the two override joins in the other order.
CategorizeRow_AmountLast(ordered, ao, mo, row0) ==
    LET row == FillNa(row0)
        key == create_transaction_key(row)
        afterRules == ApplyRules(ordered, row)
        afterManual == ManualJoin(mo, key, afterRules)
    IN  Flatten([i \in 1..Len(afterManual) |-> AmountJoin(ao, afterManual[i])])

\* The tiers with _key computed before the Balance column is filled.
CategorizeRow_KeyBeforeFill(ordered, ao, mo, row0) ==
    LET row == FillNa(row0)
        key == create_transaction_key(row0)
        afterRules == ApplyRules(ordered, row)
        afterAmount == AmountJoin(ao, afterRules)
    IN  Flatten([i \in 1..Len(afterAmount) |-> ManualJoin(mo, key, afterAmount[i])])

\* The rows one input row turns into, through the three tiers.
CategorizeRow(ordered, ao, mo, row0) ==
    LET row == FillNa(row0)
        key == create_transaction_key(row)
        afterRules == ApplyRules(ordered, row)
        afterAmount == AmountJoin(ao, afterRules)
    IN  Flatten([i \in 1..Len(afterAmount) |-> ManualJoin(mo, key, afterAmount[i])])

\* ordered: the joined rules in the order they are applied; aoTbl, moTbl:
\* the stored override tables.
apply_categorization(df, ordered, aoTbl, moTbl) ==
    IF df = <<>> THEN df
    ELSE LET ao == load_amount_overwrites(aoTbl)
             mo == load_manual_overwrites(moTbl)
         IN  Flatten([i \in 1..Len(df) |-> CategorizeRow(ordered, ao, mo, df[i])])

\* map_transactions: apply_categorization unless the ledger is empty.
map_transactions(df, ordered, aoTbl, moTbl) ==
    IF df = <<>> THEN df ELSE apply_categorization(df, ordered, aoTbl, moTbl)

(***************************************************************************)
(* apply_new_rule_to_consolidated_data and                                 *)
(* apply_new_rules_list_to_consolidated_data.  df is the ledger as         *)
(* load_consolidated_data returns it, its index being 0 .. len(df) - 1.    *)
(***************************************************************************)
\* The mask of one rule: pattern, and Type when the direction is not 'None'.
rule_mask(row, pattern, direction) ==
    /\ match_pattern(row.Transaction, pattern)
    /\ direction # "None" => row.Type = direction

\* DataFrame.update for one row: the values of other that are not missing
\* overwrite those of the row, in every column.
UpdateRow(row, other) ==
    [row EXCEPT
        !.TransactionDate = IF other.TransactionDate = 0
                            THEN row.TransactionDate ELSE other.TransactionDate,
        !.EffectiveDate = IF other.EffectiveDate = 0
                          THEN row.EffectiveDate ELSE other.EffectiveDate,
        !.Bank = other.Bank,
        !.Account = other.Account,
        !.Transaction = other.Transaction,
        !.Type = other.Type,
        !.Amount = other.Amount,
        !.Balance = IF other.Balance = Null THEN row.Balance ELSE other.Balance,
        !.Category = other.Category,
        !.SubCategory = other.SubCategory,
        !.Source_File = IF other.Source_File = <<>>
                        THEN row.Source_File ELSE other.Source_File,
        !.Source_RowNo = IF other.Source_RowNo = <<>>
                         THEN row.Source_RowNo ELSE other.Source_RowNo,
        !.Transaction_Source = other.Transaction_Source]

\* The update that aligns the rows of the subset with the rows they were
\* taken from.
UpdateSubset_KeepsIndex(df, mask, updated_subset) ==
    [i \in 1..Len(df) |->
        IF i \in mask
        THEN UpdateRow(df[i], updated_subset[Cardinality({m \in mask : m <= i})])
        ELSE df[i]]

\* df.update(updated_subset): apply_categorization returns its result with
\* a new index 0 .. n - 1 (the frame goes through pl.from_pandas and
\* to_pandas), and update aligns on the index.
UpdateSubset(df, mask, updated_subset) ==
    [i \in 1..Len(df) |->
        IF i <= Len(updated_subset)
        THEN UpdateRow(df[i], updated_subset[i])
        ELSE df[i]]

\* subset_df = df[mask].copy(), apply_categorization, df.update; nothing
\* is written when the mask is empty.
ReapplySubset(df, mask, ordered, aoTbl, moTbl) ==
    IF mask = {} THEN df
    ELSE LET subset_df == SelectSeq([i \in 1..Len(df) |-> <<i, df[i]>>],
                                    LAMBDA p : p[1] \in mask)
             updated_subset ==
                apply_categorization([k \in 1..Len(subset_df) |-> subset_df[k][2]],
                                     ordered, aoTbl, moTbl)
         IN  UpdateSubset(df, mask, updated_subset)

apply_new_rule_to_consolidated_data(df, pattern, direction, ordered, aoTbl, moTbl) ==
    ReapplySubset(df,
                  {i \in 1..Len(df) : /\ rule_mask(df[i], pattern, direction)
                                      /\ df[i].Category = "Uncategorized"},
                  ordered, aoTbl, moTbl)

apply_new_rules_list_to_consolidated_data(df, rules_list, ordered, aoTbl, moTbl) ==
    IF rules_list = <<>> THEN df
    ELSE ReapplySubset(df,
                  {i \in 1..Len(df) :
                      /\ \E k \in 1..Len(rules_list) :
                            rule_mask(df[i], rules_list[k].pattern,
                                      rules_list[k].direction)
                      /\ df[i].Category = "Uncategorized"},
                  ordered, aoTbl, moTbl)

(***************************************************************************)
(* utils/non_transaction_logic.py: the account registry.                   *)
(***************************************************************************)
\* str.split(sep): the pieces between the separators, empty pieces kept.
RECURSIVE Split(_, _)
Split(str, sep) ==
    IF \A i \in 1..Len(str) : str[i] # sep THEN <<str>>
    ELSE LET k == CHOOSE i \in 1..Len(str) :
                     str[i] = sep /\ \A j \in 1..(i - 1) : str[j] # sep
         IN  <<SubSeq(str, 1, k - 1)>> \o Split(SubSeq(str, k + 1, Len(str)), sep)

\* str.strip(): leading and trailing blanks removed.
RECURSIVE Strip(_)
Strip(str) ==
    IF str = <<>> THEN str
    ELSE IF Head(str) = " " THEN Strip(Tail(str))
    ELSE IF str[Len(str)] = " " THEN Strip(SubSeq(str, 1, Len(str) - 1))
    ELSE str

\* One piece of Category_Source: kept when it is "(" two comma-separated
\* parts ")"; the parts are stripped.
ParseTuple(piece) ==
    LET tuple_str == Strip(piece)
    IN  IF /\ tuple_str # <<>>
           /\ Head(tuple_str) = "("
           /\ tuple_str[Len(tuple_str)] = ")"
        THEN LET content == SubSeq(tuple_str, 2, Len(tuple_str) - 1)
                 parts == Split(content, ",")
             IN  IF Len(parts) = 2
                 THEN << <<Strip(parts[1]), Strip(parts[2])>> >>
                 ELSE <<>>
        ELSE <<>>

\* parse_category_source: the list of (Category, Sub-Category) pairs; an
\* empty cell (read back as NaN) or a blank one gives the empty list.
parse_category_source(category_source_str) ==
    IF category_source_str = <<>> \/ Strip(category_source_str) = <<>>
    THEN <<>>
    ELSE LET tuples == Split(category_source_str, "|")
         IN  Flatten([i \in 1..Len(tuples) |-> ParseTuple(tuples[i])])

WithParsed(acct) ==
    [Bank |-> acct.Bank, Account |-> acct.Account,
     Category_Source |-> acct.Category_Source,
     parsed_categories |-> parse_category_source(acct.Category_Source)]

\* get_balance_accounts(has_categories)
get_balance_accounts(mapping, has_categories) ==
    LET balance_accts ==
            SelectSeq(mapping, LAMBDA a : a.Input = "Balance")
        parsed == [i \in 1..Len(balance_accts) |-> WithParsed(balance_accts[i])]
    IN  IF has_categories
        THEN SelectSeq(parsed, LAMBDA a : Len(a.parsed_categories) > 0)
        ELSE parsed

\* get_exceptional_transaction_accounts
get_exceptional_transaction_accounts(mapping) ==
    LET accts == SelectSeq(mapping,
                     LAMBDA a : /\ a.Input = "Transactions"
                                /\ a.Category_Source # <<>>
                                /\ Strip(a.Category_Source) # <<>>)
    IN  [i \in 1..Len(accts) |-> WithParsed(accts[i])]

(***************************************************************************)
(* get_captured_transactions.                                              *)
(***************************************************************************)
\* A parsed part is the ledger's category string when it is that one name.
PartIs(part, name) == Len(part) = 1 /\ part[1] = name

\* The inner loop over the account's pairs, leaving at the first hit.
category_match(categories, trans) ==
    \E k \in 1..Len(categories) :
        /\ PartIs(categories[k][1], trans.Category)
        /\ PartIs(categories[k][2], trans.SubCategory)

\* The accounts the outer loop visits, in order.
captured_accounts(mapping) ==
    get_balance_accounts(mapping, TRUE) \o get_exceptional_transaction_accounts(mapping)

\* The loops without the break: one captured row per matching pair.
CapturedFrom_NoBreak(df, mapping) ==
    LET accts == captured_accounts(mapping)
        PerPair(a, i, k) ==
            IF /\ PartIs(accts[a].parsed_categories[k][1], df[i].Category)
               /\ PartIs(accts[a].parsed_categories[k][2], df[i].SubCategory)
            THEN << <<a, i>> >> ELSE <<>>
        PerRow(a, i) ==
            Flatten([k \in 1..Len(accts[a].parsed_categories) |-> PerPair(a, i, k)])
        PerAccount(a) == Flatten([i \in 1..Len(df) |-> PerRow(a, i)])
    IN  Flatten([a \in 1..Len(accts) |-> PerAccount(a)])

\* The (account, row) index pairs for which a captured row is appended, in
\* the order of the two nested loops.
CapturedFrom(df, mapping) ==
    LET accts == captured_accounts(mapping)
        PerRow(a, i) ==
            IF category_match(accts[a].parsed_categories, df[i])
            THEN << <<a, i>> >> ELSE <<>>
        PerAccount(a) ==
            IF Len(accts[a].parsed_categories) = 0 THEN <<>>
            ELSE Flatten([i \in 1..Len(df) |-> PerRow(a, i)])
    IN  Flatten([a \in 1..Len(accts) |-> PerAccount(a)])

\* The mirror that copies Amount like the other fields.
MirrorRow_SameAmount(acct, trans) ==
    [TransactionDate |-> trans.TransactionDate,
     EffectiveDate |-> trans.EffectiveDate,
     Bank |-> acct.Bank, Account |-> acct.Account,
     Transaction |-> trans.Transaction,
     Type |-> trans.Type,
     Amount |-> trans.Amount,
     Balance |-> Null,
     Category |-> trans.Category, SubCategory |-> trans.SubCategory,
     Source_File |-> trans.Source_File, Source_RowNo |-> trans.Source_RowNo,
     Transaction_Source |-> "Captured"]

\* The mirror that copies Transaction_Source like the other fields.
MirrorRow_KeepsSource(acct, trans) ==
    [TransactionDate |-> trans.TransactionDate,
     EffectiveDate |-> trans.EffectiveDate,
     Bank |-> acct.Bank, Account |-> acct.Account,
     Transaction |-> trans.Transaction,
     Type |-> trans.Type,
     Amount |-> 0 - trans.Amount,
     Balance |-> Null,
     Category |-> trans.Category, SubCategory |-> trans.SubCategory,
     Source_File |-> trans.Source_File, Source_RowNo |-> trans.Source_RowNo,
     Transaction_Source |-> trans.Transaction_Source]

\* The captured dict built from one matching row.
MirrorRow(acct, trans) ==
    [TransactionDate |-> trans.TransactionDate,
     EffectiveDate |-> trans.EffectiveDate,
     Bank |-> acct.Bank, Account |-> acct.Account,
     Transaction |-> trans.Transaction,
     Type |-> trans.Type,
     Amount |-> 0 - trans.Amount,
     Balance |-> Null,
     Category |-> trans.Category, SubCategory |-> trans.SubCategory,
     Source_File |-> trans.Source_File, Source_RowNo |-> trans.Source_RowNo,
     Transaction_Source |-> "Captured"]

get_captured_transactions(df, mapping) ==
    IF df = <<>> THEN <<>>
    ELSE LET accts == captured_accounts(mapping)
             from == CapturedFrom(df, mapping)
         IN  [k \in 1..Len(from) |-> MirrorRow(accts[from[k][1]], df[from[k][2]])]

(***************************************************************************)
(* get_synthetic_transactions.                                             *)
(***************************************************************************)
NaT == 0

\* Ascending by date, NaT last.
DateBefore(a, b) == a # NaT /\ (b = NaT \/ a < b)

\* Descending by date, NaT last.
DateAfter(a, b) == a # NaT /\ (b = NaT \/ a > b)

\* Stable insertion of x into a sequence of records sorted on field col.
RECURSIVE InsertSorted(_, _, _, _)
InsertSorted(sorted, x, col, ascending) ==
    IF sorted = <<>> THEN <<x>>
    ELSE IF (IF ascending THEN DateBefore(x[col], Head(sorted)[col])
                          ELSE DateAfter(x[col], Head(sorted)[col]))
         THEN <<x>> \o sorted
         ELSE <<Head(sorted)>> \o InsertSorted(Tail(sorted), x, col, ascending)

\* df.sort_values(col, ascending=...): NaT last, rows with equal dates in
\* their incoming order.
RECURSIVE sort_values(_, _, _)
sort_values(df, col, ascending) ==
    IF df = <<>> THEN df
    ELSE InsertSorted(sort_values(SubSeq(df, 1, Len(df) - 1), col, ascending),
                      df[Len(df)], col, ascending)

\* The while loop without the date test: every transaction left is added.
Consume_AllRemaining(account_transactions, trans_idx, running_sum, entry_date) ==
    << Len(account_transactions),
       running_sum
         + SumSeq([i \in 1..(Len(account_transactions) - trans_idx) |->
                      account_transactions[trans_idx + i].Amount]) >>

\* The while loop: consume the captured rows dated on or before the entry.
RECURSIVE Consume(_, _, _, _)
Consume(account_transactions, trans_idx, running_sum, entry_date) ==
    IF trans_idx < Len(account_transactions)
    THEN LET trans_date == account_transactions[trans_idx + 1].TransactionDate
         IN  IF trans_date # NaT /\ trans_date <= entry_date
             THEN Consume(account_transactions, trans_idx + 1,
                          running_sum + account_transactions[trans_idx + 1].Amount,
                          entry_date)
             ELSE <<trans_idx, running_sum>>
    ELSE <<trans_idx, running_sum>>

\* The adjustment row carrying the entered balance as its Amount.
SyntheticRow_AmountIsBalance(bank, account, entry_date, manual_balance, delta) ==
    [TransactionDate |-> entry_date,
     EffectiveDate |-> entry_date,
     Bank |-> bank, Account |-> account,
     Transaction |-> <<"Adjustment", "-", bank, account, "|", "Balance">>
                       \o FormatFloat(manual_balance),
     Type |-> "None",
     Amount |-> manual_balance,
     Balance |-> <<manual_balance>>,
     Category |-> "Balance Adjustment", SubCategory |-> "Balance Adjustment",
     Source_File |-> Null, Source_RowNo |-> Null,
     Transaction_Source |-> "Synthetic"]

\* The synthetic dict built for one entry whose delta is not zero.
SyntheticRow(bank, account, entry_date, manual_balance, delta) ==
    [TransactionDate |-> entry_date,
     EffectiveDate |-> entry_date,
     Bank |-> bank, Account |-> account,
     Transaction |-> <<"Adjustment", "-", bank, account, "|", "Balance">>
                       \o FormatFloat(manual_balance),
     Type |-> "None",
     Amount |-> delta,
     Balance |-> <<manual_balance>>,
     Category |-> "Balance Adjustment", SubCategory |-> "Balance Adjustment",
     Source_File |-> Null, Source_RowNo |-> Null,
     Transaction_Source |-> "Synthetic"]

\* The loop over the account's entries, from entry k on.  st holds
\* trans_idx, running_sum and cumulative_synthetic_adjustment.
RECURSIVE EntryLoop(_, _, _, _, _)
EntryLoop(acct, account_entries, account_transactions, k, st) ==
    IF k > Len(account_entries) THEN <<>>
    ELSE LET entry_date == account_entries[k].Date
             manual_balance == account_entries[k].Balance
             c == Consume(account_transactions, st[1], st[2], entry_date)
             delta == manual_balance - (c[2] + st[3])
         IN  IF delta # 0
             THEN <<SyntheticRow(acct.Bank, acct.Account, entry_date,
                                 manual_balance, delta)>>
                  \o EntryLoop(acct, account_entries, account_transactions,
                               k + 1, <<c[1], c[2], st[3] + delta>>)
             ELSE EntryLoop(acct, account_entries, account_transactions,
                            k + 1, <<c[1], c[2], st[3]>>)

\* The account's balance entries, sorted by Date.
AccountEntries(entries, acct) ==
    sort_values(SelectSeq(entries, LAMBDA e : /\ e.Bank = acct.Bank
                                              /\ e.Account = acct.Account),
                "Date", TRUE)

\* The account's Captured rows, sorted by Transaction Date.
AccountTransactions(df, acct) ==
    sort_values(SelectSeq(df, LAMBDA r : /\ r.Bank = acct.Bank
                                         /\ r.Account = acct.Account
                                         /\ r.Transaction_Source = "Captured"),
                "TransactionDate", TRUE)

SyntheticForAccount(df, entries, acct) ==
    IF AccountEntries(entries, acct) = <<>> THEN <<>>
    ELSE EntryLoop(acct, AccountEntries(entries, acct),
                   AccountTransactions(df, acct), 1, <<0, 0, 0>>)

\* <<trans_idx, running_sum>> after the while loop of each entry in turn,
\* from entry k on.
RECURSIVE RunningSums(_, _, _, _)
RunningSums(account_entries, account_transactions, k, st) ==
    IF k > Len(account_entries) THEN <<>>
    ELSE LET c == Consume(account_transactions, st[1], st[2],
                          account_entries[k].Date)
         IN  <<c>> \o RunningSums(account_entries, account_transactions, k + 1, c)

get_synthetic_transactions(df, entries, mapping) ==
    IF entries = <<>> THEN <<>>
    ELSE LET balance_accounts == get_balance_accounts(mapping, FALSE)
         IN  Flatten([i \in 1..Len(balance_accounts) |->
                         SyntheticForAccount(df, entries, balance_accounts[i])])

(***************************************************************************)
(* utils/consolidation.py: synthesize_transactions.                        *)
(***************************************************************************)
\* drop_duplicates(subset='_key', keep='first')
RECURSIVE DropDuplicateKeys(_)
DropDuplicateKeys(df) ==
    IF df = <<>> THEN df
    ELSE LET init == DropDuplicateKeys(SubSeq(df, 1, Len(df) - 1))
             last == df[Len(df)]
         IN  IF \E i \in 1..Len(init) :
                    create_transaction_key(init[i]) = create_transaction_key(last)
             THEN init ELSE Append(init, last)

\* master_df.sort_values('Transaction Date', ascending=False)
SortLedger(df) == sort_values(df, "TransactionDate", FALSE)

\* The frame returned by get_captured_transactions inside synthesize.
CapturedOf(df, mapping) == get_captured_transactions(df, mapping)

\* The synthetic rows after the key deduplication.
SyntheticOf(df, entries, mapping) ==
    DropDuplicateKeys(
        get_synthetic_transactions(df \o CapturedOf(df, mapping), entries, mapping))

synthesize_transactions(df, entries, mapping) ==
    IF df = <<>> THEN df
    ELSE SortLedger(df \o CapturedOf(df, mapping)
                       \o SyntheticOf(df, entries, mapping))

(***************************************************************************)
(* utils/non_transaction_logic.py: the balance-entry table.  A response of *)
(* the rate service is [raises, status_code, rate]: raises tells whether   *)
(* requests.get or response.json() raised, rate is rates.get(to_currency): *)
(* Null or <<rate>>.                                                       *)
(***************************************************************************)
get_exchange_rate(response) ==
    IF response.raises THEN Null
    ELSE IF response.status_code # 200 THEN Null
    ELSE response.rate

\* No fallback: without a rate the amount in EUR is 0.
final_eur_balance_NoFallback(final_original_balance, rate) ==
    IF rate # Null THEN final_original_balance * rate[1] ELSE 0

\* "if rate:" is false for None and for 0.  round(x * rate, 2) changes
\* nothing for the whole amounts and rates of the model.
final_eur_balance(final_original_balance, rate) ==
    IF rate # Null /\ rate[1] # 0
    THEN final_original_balance * rate[1]
    ELSE final_original_balance

\* add_balance_entry on the loaded table: the entry of the same Bank,
\* Account and Date is updated, otherwise a new entry is appended.
\* Entered_Date (a wall-clock stamp no operation reads) is left out.
add_balance_entry(entries, bank, account, date, balance, original_currency, original_balance, response) ==
    LET final_original_balance ==
            IF original_currency # "EUR"
            THEN IF original_balance = Null THEN <<balance>> ELSE original_balance
            ELSE Null
        final_balance ==
            IF original_currency # "EUR"
            THEN final_eur_balance(final_original_balance[1],
                                   get_exchange_rate(response))
            ELSE balance
        final_original_currency ==
            IF original_currency # "EUR" THEN <<original_currency>> ELSE Null
        mask == {i \in 1..Len(entries) : /\ entries[i].Bank = bank
                                         /\ entries[i].Account = account
                                         /\ entries[i].Date = date}
    IN  IF mask # {}
        THEN [i \in 1..Len(entries) |->
                IF i \in mask
                THEN [entries[i] EXCEPT
                        !.Balance = final_balance,
                        !.Original_Balance = final_original_balance,
                        !.Original_Currency = final_original_currency]
                ELSE entries[i]]
        ELSE Append(entries, [Bank |-> bank, Account |-> account,
                              Date |-> date, Balance |-> final_balance,
                              Original_Balance |-> final_original_balance,
                              Original_Currency |-> final_original_currency])

remove_balance_entry(entries, bank, account, date) ==
    SelectSeq(entries, LAMBDA e : ~( /\ e.Bank = bank
                                     /\ e.Account = account
                                     /\ e.Date = date ))

(***************************************************************************)
(* data/balance_entries.csv between two calls.  pd.read_csv is called with *)
(* no dtype: a column whose cells are all whole numbers is read as int64,  *)
(* any other column keeps its texts.  A cell read as int64 is the text     *)
(* <<"int64">> followed by the digits of its value.  to_csv writes a       *)
(* number by its digits.  Date is written as %Y-%m-%d (or with 00:00:00)   *)
(* and read back by pd.to_datetime: the same day.                          *)
(***************************************************************************)
read_csv_cell(column, cell) ==
    IF \A i \in 1..Len(column) : IsInt(column[i])
    THEN <<"int64">> \o Digits(IntValue(cell))
    ELSE cell

to_csv_cell(value) ==
    IF value # <<>> /\ value[1] = "int64" THEN Tail(value) ELSE value

load_balance_entries(file) ==
    LET column == [i \in 1..Len(file) |-> file[i].Account]
    IN  [i \in 1..Len(file) |->
            [file[i] EXCEPT !.Account = read_csv_cell(column, file[i].Account)]]

balance_entries_to_csv(entries) ==
    [i \in 1..Len(entries) |->
        [entries[i] EXCEPT !.Account = to_csv_cell(entries[i].Account)]]

(***************************************************************************)
(* utils/file_management.py and utils/consolidation.py: ingestion.  A file *)
(* of the listing is [Bank, Account, File_Name, Processed, readable,       *)
(* rows]: readable tells whether the bank module can read the file, rows   *)
(* is what the module finds in it (dates, text, amount, balance).          *)
(***************************************************************************)
\* get_module_info raises unless the registry has a Transactions row for
\* (bank, account) whose Module is set; the first such row decides.
get_module_info_raises(mapping, bank, account) ==
    LET row == SelectSeq(mapping, LAMBDA a : /\ a.Input = "Transactions"
                                             /\ a.Bank = bank
                                             /\ a.Account = account)
    IN  row = <<>> \/ row[1].Module = <<>>

\* The Account column a bank module writes: bank + " " + account.
ModuleAccount(bank, account) ==
    CASE bank = "B1" /\ account = "acc" -> "B1 acc"
      [] bank = "B1" /\ account = "old" -> "B1 old"
      [] OTHER -> "B2 cur"

\* parse_excel_file raises when the module lookup or the module fails.
parse_excel_file_raises(mapping, file) ==
    \/ get_module_info_raises(mapping, file.Bank, file.Account)
    \/ ~file.readable

\* The frame parse_excel_file returns (it has no Source_RowNo column).
parse_excel_file(mapping, file) ==
    [i \in 1..Len(file.rows) |->
        [TransactionDate |-> file.rows[i].TransactionDate,
         EffectiveDate |-> file.rows[i].EffectiveDate,
         Bank |-> file.Bank,
         Account |-> ModuleAccount(file.Bank, file.Account),
         Transaction |-> file.rows[i].Transaction,
         Type |-> IF file.rows[i].Amount > 0 THEN "In" ELSE "Out",
         Amount |-> file.rows[i].Amount,
         Balance |-> file.rows[i].Balance,
         Category |-> "Uncategorized", SubCategory |-> "Uncategorized",
         Source_File |-> <<file.File_Name>>, Source_RowNo |-> Null]]

\* parse_multiple_files: no handler around parse_excel_file.
parse_multiple_files_raises(mapping, file_list) ==
    \E i \in 1..Len(file_list) : parse_excel_file_raises(mapping, file_list[i])

parse_multiple_files(mapping, file_list) ==
    Flatten([i \in 1..Len(file_list) |-> parse_excel_file(mapping, file_list[i])])

\* The (Bank, Account) pairs of the model in the order groupby sorts them.
GroupKeys == << <<"B1", "acc">>, <<"B1", "old">>, <<"B2", "cur">> >>

\* files_summary_df.groupby(['Bank', 'Account'])['File Name'].apply(list)
grouped_files(files) ==
    LET present == SelectSeq(GroupKeys, LAMBDA g :
                       \E i \in 1..Len(files) : /\ files[i].Bank = g[1]
                                                 /\ files[i].Account = g[2])
    IN  [k \in 1..Len(present) |->
            [Bank |-> present[k][1], Account |-> present[k][2],
             FileNames |-> SelectSeq(files, LAMBDA f : /\ f.Bank = present[k][1]
                                                       /\ f.Account = present[k][2])]]

\* ingest_transactions raises when a call of parse_multiple_files does.
ingest_transactions_raises(files, mapping) ==
    \E k \in 1..Len(grouped_files(files)) :
        parse_multiple_files_raises(mapping, grouped_files(files)[k].FileNames)

\* The concatenated frame with Transaction_Source = 'File'.
raw_df(files, mapping) ==
    LET grouped == grouped_files(files)
        all_dfs == [k \in 1..Len(grouped) |->
                       parse_multiple_files(mapping, grouped[k].FileNames)]
        concat == Flatten(all_dfs)
    IN  [i \in 1..Len(concat) |-> concat[i] @@ ("Transaction_Source" :> "File")]

\* The frame ingest_transactions returns when nothing raises.
ingest_transactions(files, mapping) == DropDuplicateKeys(raw_df(files, mapping))

\* files_summary_df.loc[..., 'Processed'] = 'Yes' for every listed file.
update_file_summary(files) ==
    [i \in 1..Len(files) |-> [files[i] EXCEPT !.Processed = "Yes"]]

(***************************************************************************)
(* utils/raw_file_reader.py: RawFileReader.                                *)
(***************************************************************************)
\* config/file_signatures.yaml
Signatures == << [bank |-> "B1", account |-> "acc", skiprows |-> 1],
                 [bank |-> "B2", account |-> "cur", skiprows |-> 0] >>

get_signature(bank, account) ==
    SelectSeq(Signatures, LAMBDA sig : sig.bank = bank /\ sig.account = account)

\* _read_single_file: the mapped columns plus Source_File and Source_RowNo
\* (df.index + skiprows + 1 + 1, the index starting at 0).
read_single_file(file, signature) ==
    [i \in 1..Len(file.rows) |->
        [TransactionDate |-> file.rows[i].TransactionDate,
         EffectiveDate |-> file.rows[i].EffectiveDate,
         Transaction |-> file.rows[i].Transaction,
         Amount |-> file.rows[i].Amount,
         Balance |-> file.rows[i].Balance,
         Source_File |-> <<file.File_Name>>,
         Source_RowNo |-> <<(i - 1) + signature.skiprows + 1 + 1>>]]

dedup_cols(r) ==
    <<r.TransactionDate, r.EffectiveDate, r.Transaction, r.Amount, r.Balance>>

\* groupby(dedup_cols) leaves out the rows with a null in a key column.
HasNullKey(r) ==
    r.TransactionDate = NaT \/ r.EffectiveDate = NaT \/ r.Balance = Null

\* first_file_per_combination looked up for a row: the Source_File of the
\* first row of its group, NaN when the row is in no group.
FirstFile(combined_df, r) ==
    IF HasNullKey(r) THEN Null
    ELSE LET group == SelectSeq(combined_df,
                                LAMBDA x : dedup_cols(x) = dedup_cols(r))
         IN  group[1].Source_File

read_files_raises(bank, account) == get_signature(bank, account) = <<>>

\* read_files: files that cannot be read are skipped, the rest is
\* concatenated, deduplicated across files and standardised.
read_files(file_paths, bank, account) ==
    LET signature == get_signature(bank, account)[1]
        dfs == [i \in 1..Len(file_paths) |->
                   IF file_paths[i].readable
                   THEN read_single_file(file_paths[i], signature) ELSE <<>>]
        combined_df == Flatten(dfs)
        kept == SelectSeq(combined_df,
                          LAMBDA r : r.Source_File = FirstFile(combined_df, r))
    IN  [i \in 1..Len(kept) |->
            [Bank |-> bank,
             Account |-> ModuleAccount(bank, account),
             TransactionDate |-> kept[i].TransactionDate,
             EffectiveDate |-> kept[i].EffectiveDate,
             Transaction |-> kept[i].Transaction,
             Type |-> IF kept[i].Amount > 0 THEN "In" ELSE "Out",
             Amount |-> kept[i].Amount,
             Balance |-> kept[i].Balance,
             Category |-> "Uncategorized", SubCategory |-> "Uncategorized",
             Source_File |-> kept[i].Source_File,
             Source_RowNo |-> kept[i].Source_RowNo]]

(***************************************************************************)
(* Input domains.                                                          *)
(***************************************************************************)
Patterns == { <<"a", "*">>, <<"*", "A">>, <<"a">> }

\* (Category, Sub-Category, Direction) of the rules that are added.
RuleTargets == { <<"Food", "Cafe", "Out">>,
                 <<"Income", "Salary", "In">>,
                 <<"Transfer", "Savings", "None">> }

\* (Category, Sub-Category, Direction) typed into the override form.
AmountTargets == { <<"Gift", "Given", "Out">>, <<"Gift", "Any", "None">> }

ManualTargets == { <<"Tax", "Vat", "In">>, <<"Tax", "Any", "None">> }

\* A row as RawFileReader.read_files returns it and ingest_transactions
\* tags it: Type from the sign of Amount, Category and Sub-Category
\* "Uncategorized", Transaction_Source "File".
RawRow(date, text, amount, balance, rowNo) ==
    [TransactionDate |-> date, EffectiveDate |-> date,
     Bank |-> "B1", Account |-> "B1 acc",
     Transaction |-> text,
     Type |-> IF amount > 0 THEN "In" ELSE "Out",
     Amount |-> amount, Balance |-> balance,
     Category |-> "Uncategorized", SubCategory |-> "Uncategorized",
     Source_File |-> <<"f1.csv">>, Source_RowNo |-> <<rowNo>>,
     Transaction_Source |-> "File"]

RawRows == { RawRow(1, <<"A">>, -5, <<10>>, 1),
             RawRow(1, <<"A">>, 5, Null, 2),
             RawRow(1, <<"a", "b">>, -5, Null, 3),
             RawRow(2, <<"A">>, -5, <<20>>, 4) }

\* Ledgers ingest_transactions can return: no two rows share a key.
RawLedgers ==
    {l \in SeqsUpTo(RawRows, MaxRows) :
        \A i, j \in 1..Len(l) :
            i # j => create_transaction_key(l[i]) # create_transaction_key(l[j])}

\* Rule and pair tables that add_mapping_rule builds from empty tables.
RuleInputs == Patterns \X RuleTargets

AddRuleStep(t, inp) ==
    << AddRuleRules(t[1], t[2], inp[1], inp[2][1], inp[2][2], inp[2][3]),
       AddRulePairs(t[2], inp[2][1], inp[2][2], inp[2][3]) >>

RECURSIVE RuleTables(_)
RuleTables(n) ==
    IF n = 0 THEN { << <<>>, <<>> >> }
    ELSE LET prev == RuleTables(n - 1)
         IN  prev \cup
             { AddRuleStep(t, inp) :
                 <<t, inp>> \in
                   { x \in prev \X RuleInputs :
                       ~AddRuleRaises(x[1][1], x[1][2], x[2][1],
                                      x[2][2][1], x[2][2][2], x[2][2][3]) } }

\* Amount-override tables the form builds: the key is the Transaction and
\* Amount of a row of the ledger on screen.
RECURSIVE AmountTables(_, _)
AmountTables(rows, n) ==
    IF n = 0 THEN { <<>> }
    ELSE LET prev == AmountTables(rows, n - 1)
         IN  prev \cup
             { add_amount_override(t, r.Transaction, r.Amount, g[1], g[2], g[3]) :
                 <<t, r, g>> \in prev \X rows \X AmountTargets }

\* Instance-override tables the form builds: the key is
\* create_transaction_key of a row of the ledger on screen.
RECURSIVE ManualTables(_, _)
ManualTables(rows, n) ==
    IF n = 0 THEN { <<>> }
    ELSE LET prev == ManualTables(rows, n - 1)
         IN  prev \cup
             { add_manual_override(t, create_transaction_key(r), g[1], g[2], g[3]) :
                 <<t, r, g>> \in prev \X rows \X ManualTargets }

\* The rows the override form shows for the files of a raw ledger: the
\* session ledger always went through map_transactions, whose result has
\* the Balance column filled.
ScreenRows(raw) == { FillNa(raw[i]) : i \in 1..Len(raw) }

\* Account registries (data/bank_mapping.csv, edited by the operator).
SourceSavings == <<"(", "Transfer", ",", "Savings", ")">>

SourceMixed == <<"(", " ", "Transfer", " ", ",", "Savings", ")", " ", "|",
                 "(", "Food", ",", "Cafe", ")", "|",
                 "(", "Food", ",", " ", "Cafe", ")", "|",
                 "(", "Food", ")">>

SourceCafe == <<"(", "Food", ",", "Cafe", ")">>

Account(bank, account, input, source) ==
    [Bank |-> bank, Account |-> account, Input |-> input,
     Category_Source |-> source]

BankMappings ==
    { << Account("Sav", "Pot", "Balance", SourceSavings) >>,
      << Account("Sav", "Pot", "Balance", SourceMixed),
         Account("Sav", "Cash", "Balance", <<>>),
         Account("B2", "Joint", "Transactions", SourceCafe),
         Account("B2", "Blank", "Transactions", <<" ">>),
         Account("Fk", "Fake", "Fake", SourceCafe) >> }

EntryDates == {1, 2}

\* For an amount in EUR the rate service is not called.
NoResponse == [raises |-> FALSE, status_code |-> 200, rate |-> Null]

EntryBalances == {0, 5}

\* Balance-entry tables the balance form builds with add_balance_entry for
\* the Balance accounts of the registry.
RECURSIVE EntryTables(_, _)
EntryTables(mapping, n) ==
    IF n = 0 THEN { <<>> }
    ELSE LET prev == EntryTables(mapping, n - 1)
             accts == {a \in Range(mapping) : a.Input = "Balance"}
         IN  prev \cup
             { add_balance_entry(t, a.Bank, a.Account, d, b, "EUR", Null, NoResponse) :
                 <<t, a, d, b>> \in prev \X accts \X EntryDates \X EntryBalances }

\* What the rule form and the bulk form pass to add_mapping_rule: the
\* patterns above, "A", an empty pattern, and a wildcard pattern of 102
\* characters; the targets above, one with an empty Category, and the pair
\* of the first target with another Direction.
LongWildcard == [i \in 1..102 |-> IF i = 1 THEN "*" ELSE "a"]

AddPatterns == Patterns \cup { <<"A">>, <<>>, LongWildcard }

AddTargets == RuleTargets \cup { <<"", "Cafe", "Out">>, <<"Food", "Cafe", "In">> }

\* Ledgers for the override form: a row the rule "a" categorises, and two
\* rows it leaves Uncategorized that differ in Balance (none, 0) and in
\* their place in the file.
FormRows == { RawRow(1, <<"A">>, -5, <<10>>, 1),
              RawRow(1, <<"a", "b">>, -5, Null, 3),
              RawRow(1, <<"a", "b">>, -5, <<0>>, 5) }

FormLedgers ==
    {l \in SeqsUpTo(FormRows, MaxRows) :
        \A i, j \in 1..Len(l) :
            i # j => create_transaction_key(l[i]) # create_transaction_key(l[j])}

FormRuleTable ==
    AddRuleStep(<< <<>>, <<>> >>, << <<"a">>, <<"Food", "Cafe", "Out">> >>)

\* A registry without accounts, and one whose Balance account mirrors the
\* rows that are still Uncategorized.
SourceUncategorized == <<"(", "Uncategorized", ",", "Uncategorized", ")">>

FormMappings ==
    { <<>>, << Account("Sav", "Pot", "Balance", SourceUncategorized) >> }

\* The raw files on disk.  Two rows of f1.csv are the same visit twice;
\* f2.csv repeats a row of f1.csv and has a row whose text and amount read
\* "A15.0" when put one after the other, like those of f1.csv's rows;
\* f3.csv has a row without balance; f4.csv cannot be read; f5.csv belongs
\* to an account without module and signature; f6.csv is another account.
FileRow(date, text, amount, balance) ==
    [TransactionDate |-> date, EffectiveDate |-> date, Transaction |-> text,
     Amount |-> amount, Balance |-> balance]

File(bank, account, name, readable, rows) ==
    [Bank |-> bank, Account |-> account, File_Name |-> name,
     Processed |-> "No", readable |-> readable, rows |-> rows]

Files ==
    { File("B1", "acc", "f1.csv", TRUE,
           << FileRow(1, <<"A", "1">>, 5, <<10>>),
              FileRow(1, <<"A", "1">>, 5, <<10>>) >>),
      File("B1", "acc", "f2.csv", TRUE,
           << FileRow(1, <<"A", "1">>, 5, <<10>>),
              FileRow(1, <<"A">>, 15, <<10>>) >>),
      File("B1", "acc", "f3.csv", TRUE,
           << FileRow(1, <<"A">>, -5, Null),
              FileRow(2, <<"A">>, -5, <<20>>) >>),
      File("B1", "acc", "f4.csv", FALSE, <<>>),
      File("B1", "old", "f5.csv", TRUE,
           << FileRow(2, <<"A">>, -5, <<20>>) >>),
      File("B2", "cur", "f6.csv", TRUE,
           << FileRow(1, <<"A", "1">>, 5, <<10>>) >>) }

FileListings == SeqsUpTo(Files, MaxFiles)

\* The registry the bank modules are configured in.
ModuleAccountRow(bank, account, module) ==
    [Bank |-> bank, Account |-> account, Input |-> "Transactions",
     Category_Source |-> <<>>, Module |-> module]

IngestMapping ==
    << ModuleAccountRow("B1", "acc", <<"bank1.readBank1">>),
       ModuleAccountRow("B2", "cur", <<"bank2.readBank2">>),
       ModuleAccountRow("B1", "old", <<>>) >>

\* The rules in force while synthesis is exercised: "a*" and the exact "a".
SynthRuleTable ==
    AddRuleStep(AddRuleStep(<< <<>>, <<>> >>,
                            << <<"a", "*">>, <<"Transfer", "Savings", "None">> >>),
                << <<"a">>, <<"Food", "Cafe", "Out">> >>)

(***************************************************************************)
(* Categorization: the tables are those the rule and override operations   *)
(* have stored, the ledger is what ingestion returned, and mapping is run  *)
(* on the session ledger (again and again, as the sidebar allows).         *)
(***************************************************************************)
Init ==
    /\ ledger \in RawLedgers
    /\ \E t \in RuleTables(MaxRules) : rules = t[1] /\ pairs = t[2]
    /\ amountOverwrites \in AmountTables(ScreenRows(ledger), MaxAmountOverwrites)
    /\ manualOverwrites \in ManualTables(ScreenRows(ledger), MaxManualOverwrites)
    /\ bankMapping = <<>>
    /\ balanceEntries = <<>>
    /\ stage = "ingested"
    /\ runs = 0
    /\ mapIn = <<>>
    /\ ruleOrder = <<>>
    /\ synthIn = <<>>
    /\ captured = <<>>
    /\ synthetic = <<>>
    /\ filesSummary = <<>>
    /\ readOut = <<>>
    /\ addOut = <<>>
    /\ overrideRows = <<>>
    /\ callOut = <<>>

\* map_transactions(st.session_state.consolidated_df)
MapTransactions ==
    /\ LET joined == load_mapping_rules(rules, pairs)
       IN  \E ord \in RuleOrders(joined) :
             LET ordered == [i \in 1..Len(joined) |-> joined[ord[i]]]
             IN  /\ ledger' = map_transactions(ledger, ordered,
                                               amountOverwrites, manualOverwrites)
                 /\ ruleOrder' = ordered
    /\ mapIn' = ledger
    /\ stage' = "mapped"
    /\ UNCHANGED <<runs, rules, pairs, amountOverwrites, manualOverwrites,
                   bankMapping, balanceEntries, synthIn, captured, synthetic,
                   filesSummary, readOut, addOut, overrideRows,
                   callOut>>

\* synthesize_transactions(st.session_state.consolidated_df): every sidebar
\* handler runs it right after map_transactions.
SynthesizeTransactions ==
    /\ stage = "mapped"
    /\ runs < MaxRuns
    /\ ledger' = synthesize_transactions(ledger, balanceEntries, bankMapping)
    /\ synthIn' = ledger
    /\ captured' = IF ledger = <<>> THEN <<>>
                   ELSE CapturedOf(ledger, bankMapping)
    /\ synthetic' = IF ledger = <<>> THEN <<>>
                    ELSE SyntheticOf(ledger, balanceEntries, bankMapping)
    /\ stage' = "synthesized"
    /\ runs' = runs + 1
    /\ UNCHANGED <<rules, pairs, amountOverwrites, manualOverwrites,
                   bankMapping, balanceEntries, mapIn, ruleOrder,
                   filesSummary, readOut, addOut, overrideRows,
                   callOut>>

Next == MapTransactions

Spec == Init /\ [][Next]_vars

(***************************************************************************)
(* Synthesis: a registry, the balance entries the operator stored, and the *)
(* sidebar running map then synthesize on the session ledger, repeatedly.  *)
(***************************************************************************)
InitSynth ==
    /\ ledger \in RawLedgers
    /\ rules = SynthRuleTable[1]
    /\ pairs = SynthRuleTable[2]
    /\ amountOverwrites = <<>>
    /\ manualOverwrites = <<>>
    /\ bankMapping \in BankMappings
    /\ balanceEntries \in EntryTables(bankMapping, MaxEntries)
    /\ stage = "ingested"
    /\ runs = 0
    /\ mapIn = <<>>
    /\ ruleOrder = <<>>
    /\ synthIn = <<>>
    /\ captured = <<>>
    /\ synthetic = <<>>
    /\ filesSummary = <<>>
    /\ readOut = <<>>
    /\ addOut = <<>>
    /\ overrideRows = <<>>
    /\ callOut = <<>>

NextSynth == MapTransactions \/ SynthesizeTransactions

SpecSynth == InitSynth /\ [][NextSynth]_vars

(***************************************************************************)
(* Ingestion: a listing of raw files, read by ingest_transactions (the     *)
(* first step of every sidebar handler when the session has no ledger) and *)
(* by RawFileReader.read_files for the files of one account.               *)
(***************************************************************************)
InitIngest ==
    /\ filesSummary \in FileListings
    /\ ledger = <<>>
    /\ rules = <<>>
    /\ pairs = <<>>
    /\ amountOverwrites = <<>>
    /\ manualOverwrites = <<>>
    /\ bankMapping = IngestMapping
    /\ balanceEntries = <<>>
    /\ stage = "start"
    /\ runs = 0
    /\ mapIn = <<>>
    /\ ruleOrder = <<>>
    /\ synthIn = <<>>
    /\ captured = <<>>
    /\ synthetic = <<>>
    /\ readOut = <<>>
    /\ addOut = <<>>
    /\ overrideRows = <<>>
    /\ callOut = <<>>

\* st.session_state.consolidated_df = ingest_transactions(): an exception
\* leaves the session ledger and the listing as they were.
IngestTransactions ==
    /\ IF ingest_transactions_raises(filesSummary, bankMapping)
       THEN /\ stage' = "ingest_failed"
            /\ UNCHANGED <<ledger, filesSummary>>
       ELSE /\ stage' = "ingested"
            /\ ledger' = ingest_transactions(filesSummary, bankMapping)
            /\ filesSummary' = IF grouped_files(filesSummary) = <<>>
                               THEN filesSummary
                               ELSE update_file_summary(filesSummary)
    /\ UNCHANGED <<runs, rules, pairs, amountOverwrites, manualOverwrites,
                   bankMapping, balanceEntries, mapIn, ruleOrder, synthIn,
                   captured, synthetic, readOut, addOut, overrideRows,
                   callOut>>

\* RawFileReader().read_files(file_paths, bank, account) for the listed
\* files of one account.
ReadFiles ==
    /\ \E k \in 1..Len(GroupKeys) :
          LET bank == GroupKeys[k][1]
              account == GroupKeys[k][2]
              file_paths == SelectSeq(filesSummary,
                                LAMBDA f : f.Bank = bank /\ f.Account = account)
          IN  readOut' = << [bank |-> bank, account |-> account,
                             file_paths |-> file_paths,
                             raised |-> read_files_raises(bank, account),
                             df |-> IF read_files_raises(bank, account) THEN <<>>
                                    ELSE read_files(file_paths, bank, account)] >>
    /\ UNCHANGED <<ledger, stage, runs, rules, pairs, amountOverwrites,
                   manualOverwrites, bankMapping, balanceEntries, mapIn,
                   ruleOrder, synthIn, captured, synthetic, filesSummary,
                   addOut, overrideRows,
                   callOut>>

NextIngest == IngestTransactions \/ ReadFiles

SpecIngest == InitIngest /\ [][NextIngest]_vars

(***************************************************************************)
(* Rule maintenance: add_mapping_rule called again and again on the stored *)
(* tables, starting with no tables.                                        *)
(***************************************************************************)
InitRules ==
    /\ rules = <<>>
    /\ pairs = <<>>
    /\ ledger = <<>>
    /\ amountOverwrites = <<>>
    /\ manualOverwrites = <<>>
    /\ bankMapping = <<>>
    /\ balanceEntries = <<>>
    /\ stage = "start"
    /\ runs = 0
    /\ mapIn = <<>>
    /\ ruleOrder = <<>>
    /\ synthIn = <<>>
    /\ captured = <<>>
    /\ synthetic = <<>>
    /\ filesSummary = <<>>
    /\ readOut = <<>>
    /\ addOut = <<>>
    /\ overrideRows = <<>>
    /\ callOut = <<>>

\* add_mapping_rule(pattern, category, sub_category, direction)
AddMappingRule ==
    /\ \E pattern \in AddPatterns : \E target \in AddTargets :
          LET raises == AddRuleRaises(rules, pairs, pattern,
                                      target[1], target[2], target[3])
          IN  /\ addOut' = << [pattern |-> pattern, category |-> target[1],
                               sub_category |-> target[2],
                               direction |-> target[3], raised |-> raises,
                               rules |-> rules, pairs |-> pairs] >>
              /\ IF raises
                 THEN UNCHANGED <<rules, pairs>>
                 ELSE /\ Len(rules) < MaxRules
                      /\ rules' = AddRuleRules(rules, pairs, pattern,
                                               target[1], target[2], target[3])
                      /\ pairs' = AddRulePairs(pairs, target[1], target[2],
                                               target[3])
    /\ UNCHANGED <<ledger, stage, runs, amountOverwrites, manualOverwrites,
                   bankMapping, balanceEntries, mapIn, ruleOrder, synthIn,
                   captured, synthetic, filesSummary, readOut,
                   overrideRows,
                   callOut>>

NextRules == AddMappingRule

SpecRules == InitRules /\ [][NextRules]_vars

(***************************************************************************)
(* The override form (views/manual_overwrite.py) on the session ledger,    *)
(* between runs of the sidebar's map and synthesize.                       *)
(***************************************************************************)
InitForm ==
    /\ ledger \in FormLedgers
    /\ rules = FormRuleTable[1]
    /\ pairs = FormRuleTable[2]
    /\ amountOverwrites = <<>>
    /\ manualOverwrites = <<>>
    /\ bankMapping \in FormMappings
    /\ balanceEntries = <<>>
    /\ stage = "ingested"
    /\ runs = 0
    /\ mapIn = <<>>
    /\ ruleOrder = <<>>
    /\ synthIn = <<>>
    /\ captured = <<>>
    /\ synthetic = <<>>
    /\ filesSummary = <<>>
    /\ readOut = <<>>
    /\ addOut = <<>>
    /\ overrideRows = <<>>
    /\ callOut = <<>>

\* "Save Override" with the instance scope, for an Uncategorized row of the
\* session ledger: the key is create_transaction_key of the row as the
\* ledger holds it.  The handler then asks for a refresh, and the rerun
\* takes the File rows of the saved ledger as the session ledger.
AddManualOverride ==
    /\ stage = "synthesized"
    /\ \E i \in 1..Len(ledger) : \E target \in ManualTargets :
          LET transaction_key == create_transaction_key(ledger[i])
              hit == {k \in 1..Len(manualOverwrites) :
                         ManualKey(manualOverwrites[k]) = transaction_key}
          IN  /\ ledger[i].Category = "Uncategorized"
              /\ hit # {} \/ Len(manualOverwrites) < MaxManualOverwrites
              /\ manualOverwrites' =
                    add_manual_override(manualOverwrites, transaction_key,
                                        target[1], target[2], target[3])
              /\ overrideRows' = DictPut(overrideRows, hit, ledger[i])
    /\ ledger' = SelectSeq(ledger, LAMBDA r : r.Transaction_Source = "File")
    /\ stage' = "hydrated"
    /\ UNCHANGED <<runs, rules, pairs, amountOverwrites, bankMapping,
                   balanceEntries, mapIn, ruleOrder, synthIn, captured,
                   synthetic, filesSummary, readOut, addOut,
                   callOut>>

NextForm == MapTransactions \/ SynthesizeTransactions \/ AddManualOverride

SpecForm == InitForm /\ [][NextForm]_vars

(***************************************************************************)
(* The balance form (views/non_transaction_accounts.py): every call loads  *)
(* data/balance_entries.csv, changes the table and writes it back.         *)
(***************************************************************************)
BalanceBanks == { <<"Sav">> }

BalanceAccounts == { <<"Pot">>, <<"7">> }

BalanceAmounts == {3, 5}

Currencies == {"EUR", "USD"}

\* What requests.get can come back with: an exception, an error status,
\* an answer without the rate, a rate of 0 and a rate of 2.
Responses ==
    { [raises |-> TRUE, status_code |-> 200, rate |-> Null],
      [raises |-> FALSE, status_code |-> 404, rate |-> Null],
      [raises |-> FALSE, status_code |-> 200, rate |-> Null],
      [raises |-> FALSE, status_code |-> 200, rate |-> <<0>>],
      [raises |-> FALSE, status_code |-> 200, rate |-> <<2>>] }

InitBalance ==
    /\ ledger = <<>>
    /\ stage = "balance"
    /\ runs = 0
    /\ rules = <<>>
    /\ pairs = <<>>
    /\ amountOverwrites = <<>>
    /\ manualOverwrites = <<>>
    /\ bankMapping = <<>>
    /\ balanceEntries = <<>>
    /\ mapIn = <<>>
    /\ ruleOrder = <<>>
    /\ synthIn = <<>>
    /\ captured = <<>>
    /\ synthetic = <<>>
    /\ filesSummary = <<>>
    /\ readOut = <<>>
    /\ addOut = <<>>
    /\ overrideRows = <<>>
    /\ callOut = <<>>

AddBalanceEntry ==
    /\ stage = "balance"
    /\ \E bank \in BalanceBanks, account \in BalanceAccounts,
          date \in EntryDates, balance \in BalanceAmounts,
          original_currency \in Currencies,
          response \in Responses \cup {NoResponse} :
        \E original_balance \in {Null, <<balance>>} :
          LET result == add_balance_entry(load_balance_entries(balanceEntries),
                                          bank, account, date, balance,
                                          original_currency, original_balance,
                                          response)
          IN  /\ original_currency = "EUR"
                   => original_balance = Null /\ response = NoResponse
              /\ original_currency # "EUR" => response \in Responses
              /\ Len(result) <= MaxEntries
              /\ balanceEntries' = balance_entries_to_csv(result)
              /\ callOut' = << [op |-> "add_balance_entry", bank |-> bank,
                                account |-> account, date |-> date,
                                balance |-> balance,
                                original_currency |-> original_currency,
                                original_balance |-> original_balance,
                                response |-> response,
                                before |-> balanceEntries] >>
    /\ UNCHANGED <<ledger, stage, runs, rules, pairs, amountOverwrites,
                   manualOverwrites, bankMapping, mapIn, ruleOrder, synthIn,
                   captured, synthetic, filesSummary, readOut, addOut,
                   overrideRows>>

RemoveBalanceEntry ==
    /\ stage = "balance"
    /\ \E bank \in BalanceBanks, account \in BalanceAccounts,
          date \in EntryDates :
          /\ balanceEntries' =
                balance_entries_to_csv(
                    remove_balance_entry(load_balance_entries(balanceEntries),
                                         bank, account, date))
          /\ callOut' = << [op |-> "remove_balance_entry", bank |-> bank,
                            account |-> account, date |-> date,
                            before |-> balanceEntries] >>
    /\ UNCHANGED <<ledger, stage, runs, rules, pairs, amountOverwrites,
                   manualOverwrites, bankMapping, mapIn, ruleOrder, synthIn,
                   captured, synthetic, filesSummary, readOut, addOut,
                   overrideRows>>

NextBalance == AddBalanceEntry \/ RemoveBalanceEntry

SpecBalance == InitBalance /\ [][NextBalance]_vars

(***************************************************************************)
(* The amount-override form and src/verify_amount_override.py: every call  *)
(* loads data/amount_overwrites.csv, changes the dict and saves it.        *)
(***************************************************************************)
\* Transaction texts an override is stored for: a description in letters,
\* one in digits with a leading zero, and the text NaN.
OverrideTexts == { <<"a", "b">>, <<"0", "7">>, <<"NaN">> }

OverrideAmounts == {-5, 5}

InitAmount ==
    /\ ledger = <<>>
    /\ stage = "amount"
    /\ runs = 0
    /\ rules = <<>>
    /\ pairs = <<>>
    /\ amountOverwrites = <<>>
    /\ manualOverwrites = <<>>
    /\ bankMapping = <<>>
    /\ balanceEntries = <<>>
    /\ mapIn = <<>>
    /\ ruleOrder = <<>>
    /\ synthIn = <<>>
    /\ captured = <<>>
    /\ synthetic = <<>>
    /\ filesSummary = <<>>
    /\ readOut = <<>>
    /\ addOut = <<>>
    /\ overrideRows = <<>>
    /\ callOut = <<>>

AddAmountOverride ==
    /\ stage = "amount"
    /\ \E transaction \in OverrideTexts, amount \in OverrideAmounts,
          g \in AmountTargets :
          LET result == add_amount_override(amountOverwrites, transaction,
                                            amount, g[1], g[2], g[3])
          IN  /\ Len(result) <= MaxStored
              /\ amountOverwrites' = result
              /\ callOut' = << [op |-> "add_amount_override",
                                transaction |-> transaction,
                                amount |-> amount, category |-> g[1],
                                sub_category |-> g[2], direction |-> g[3],
                                before |-> amountOverwrites] >>
    /\ UNCHANGED <<ledger, stage, runs, rules, pairs, manualOverwrites,
                   bankMapping, balanceEntries, mapIn, ruleOrder, synthIn,
                   captured, synthetic, filesSummary, readOut, addOut,
                   overrideRows>>

RemoveAmountOverride ==
    /\ stage = "amount"
    /\ \E transaction \in OverrideTexts, amount \in OverrideAmounts :
          /\ amountOverwrites' = remove_amount_override(amountOverwrites,
                                                        transaction, amount)
          /\ callOut' = << [op |-> "remove_amount_override",
                            transaction |-> transaction, amount |-> amount,
                            before |-> amountOverwrites] >>
    /\ UNCHANGED <<ledger, stage, runs, rules, pairs, manualOverwrites,
                   bankMapping, balanceEntries, mapIn, ruleOrder, synthIn,
                   captured, synthetic, filesSummary, readOut, addOut,
                   overrideRows>>

NextAmount == AddAmountOverride \/ RemoveAmountOverride

SpecAmount == InitAmount /\ [][NextAmount]_vars

(***************************************************************************)
(* The rule forms (views/mapping.py, views/bulk_mapping.py): a rule is     *)
(* added and applied at once to data/consolidated_transactions.csv, which  *)
(* holds what the last sidebar handler saved: the mapped and synthesized   *)
(* ledger.                                                                 *)
(***************************************************************************)
\* The rules a form submits in one go: (pattern, (Category, Sub-Category,
\* Direction)), one for the single form, up to two for the bulk form.
NewRuleLists == SeqsUpTo(RuleInputs, 2) \ { <<>> }

\* add_mapping_rule for each rule of the list, from the tables t.
RECURSIVE AddRuleList(_, _)
AddRuleList(t, list) ==
    IF list = <<>> THEN t
    ELSE AddRuleList(AddRuleStep(t, Head(list)), Tail(list))

\* Some add_mapping_rule call of the list raises.
RECURSIVE AddRuleListRaises(_, _)
AddRuleListRaises(t, list) ==
    IF list = <<>> THEN FALSE
    ELSE \/ AddRuleRaises(t[1], t[2], Head(list)[1],
                          Head(list)[2][1], Head(list)[2][2], Head(list)[2][3])
         \/ AddRuleListRaises(AddRuleStep(t, Head(list)), Tail(list))

InitApply ==
    /\ \E t \in RuleTables(MaxRules - 1) :
          /\ rules = t[1]
          /\ pairs = t[2]
          /\ \E raw \in RawLedgers :
             \E ord \in RuleOrders(load_mapping_rules(t[1], t[2])) :
                LET joined == load_mapping_rules(t[1], t[2])
                    ordered == [i \in 1..Len(joined) |-> joined[ord[i]]]
                IN  ledger = synthesize_transactions(
                                 map_transactions(raw, ordered, <<>>, <<>>),
                                 <<>>, <<>>)
    /\ stage = "saved"
    /\ runs = 0
    /\ amountOverwrites = <<>>
    /\ manualOverwrites = <<>>
    /\ bankMapping = <<>>
    /\ balanceEntries = <<>>
    /\ mapIn = <<>>
    /\ ruleOrder = <<>>
    /\ synthIn = <<>>
    /\ captured = <<>>
    /\ synthetic = <<>>
    /\ filesSummary = <<>>
    /\ readOut = <<>>
    /\ addOut = <<>>
    /\ overrideRows = <<>>
    /\ callOut = <<>>

\* add_mapping_rule, then apply_new_rule_to_consolidated_data.
ApplyNewRule ==
    /\ stage = "saved"
    /\ Len(rules) < MaxRules
    /\ \E inp \in RuleInputs :
          LET t == AddRuleStep(<<rules, pairs>>, inp)
              joined == load_mapping_rules(t[1], t[2])
          IN  /\ ~AddRuleListRaises(<<rules, pairs>>, <<inp>>)
              /\ rules' = t[1]
              /\ pairs' = t[2]
              /\ \E ord \in RuleOrders(joined) :
                    LET ordered == [i \in 1..Len(joined) |-> joined[ord[i]]]
                    IN  /\ ledger' = apply_new_rule_to_consolidated_data(
                                         ledger, inp[1], inp[2][3], ordered,
                                         amountOverwrites, manualOverwrites)
                        /\ ruleOrder' = ordered
              /\ callOut' = << [op |-> "apply_new_rule",
                                rules_list |-> << [pattern |-> inp[1],
                                                   direction |-> inp[2][3]] >>,
                                before |-> ledger] >>
    /\ UNCHANGED <<stage, runs, amountOverwrites, manualOverwrites,
                   bankMapping, balanceEntries, mapIn, synthIn, captured,
                   synthetic, filesSummary, readOut, addOut, overrideRows>>

\* add_mapping_rule for every row of the bulk form, then
\* apply_new_rules_list_to_consolidated_data.
ApplyNewRulesList ==
    /\ stage = "saved"
    /\ \E list \in NewRuleLists :
          LET t == AddRuleList(<<rules, pairs>>, list)
              joined == load_mapping_rules(t[1], t[2])
              rules_list == [k \in 1..Len(list) |->
                                [pattern |-> list[k][1],
                                 direction |-> list[k][2][3]]]
          IN  /\ Len(rules) + Len(list) <= MaxRules
              /\ ~AddRuleListRaises(<<rules, pairs>>, list)
              /\ rules' = t[1]
              /\ pairs' = t[2]
              /\ \E ord \in RuleOrders(joined) :
                    LET ordered == [i \in 1..Len(joined) |-> joined[ord[i]]]
                    IN  /\ ledger' = apply_new_rules_list_to_consolidated_data(
                                         ledger, rules_list, ordered,
                                         amountOverwrites, manualOverwrites)
                        /\ ruleOrder' = ordered
              /\ callOut' = << [op |-> "apply_new_rules_list",
                                rules_list |-> rules_list,
                                before |-> ledger] >>
    /\ UNCHANGED <<stage, runs, amountOverwrites, manualOverwrites,
                   bankMapping, balanceEntries, mapIn, synthIn, captured,
                   synthetic, filesSummary, readOut, addOut, overrideRows>>

NextApply == ApplyNewRule \/ ApplyNewRulesList

SpecApply == InitApply /\ [][NextApply]_vars

(***************************************************************************)
(* Rule table specification: rules are added to and deleted from tables    *)
(* that start empty.  The patterns are an exact one, a wildcard one and the *)
(* text "null".                                                            *)
(***************************************************************************)
TablePatterns == { <<"a">>, <<"a", "*">>, <<"n", "u", "l", "l">> }

TableTargets == { <<"Food", "Cafe", "Out">>, <<"Transfer", "Savings", "None">> }

InitTable ==
    /\ rules = <<>>
    /\ pairs = <<>>
    /\ ledger = <<>>
    /\ amountOverwrites = <<>>
    /\ manualOverwrites = <<>>
    /\ bankMapping = <<>>
    /\ balanceEntries = <<>>
    /\ stage = "tables"
    /\ runs = 0
    /\ mapIn = <<>>
    /\ ruleOrder = <<>>
    /\ synthIn = <<>>
    /\ captured = <<>>
    /\ synthetic = <<>>
    /\ filesSummary = <<>>
    /\ readOut = <<>>
    /\ addOut = <<>>
    /\ overrideRows = <<>>
    /\ callOut = <<>>

\* add_mapping_rule(pattern, category, sub_category, direction)
AddRule ==
    /\ \E pattern \in TablePatterns : \E target \in TableTargets :
          LET raises == AddRuleRaises(rules, pairs, pattern,
                                      target[1], target[2], target[3])
          IN  /\ callOut' = << [op |-> "add_mapping_rule", pattern |-> pattern,
                                raised |-> raises,
                                rules |-> rules, pairs |-> pairs] >>
              /\ IF raises
                 THEN UNCHANGED <<rules, pairs>>
                 ELSE /\ Len(rules) < MaxRules
                      /\ rules' = AddRuleRules(rules, pairs, pattern,
                                               target[1], target[2], target[3])
                      /\ pairs' = AddRulePairs(pairs, target[1], target[2],
                                               target[3])
    /\ UNCHANGED <<ledger, stage, runs, amountOverwrites, manualOverwrites,
                   bankMapping, balanceEntries, mapIn, ruleOrder, synthIn,
                   captured, synthetic, filesSummary, readOut, addOut,
                   overrideRows>>

\* delete_mapping_rule(rule_id), with the id of a stored rule or another one
DeleteMappingRule ==
    /\ \E rule_id \in 1..(MaxRules + 1) :
          /\ callOut' = << [op |-> "delete_mapping_rule", rule_id |-> rule_id,
                            rules |-> rules, pairs |-> pairs] >>
          /\ rules' = delete_mapping_rule(rules, rule_id)
    /\ UNCHANGED <<pairs, ledger, stage, runs, amountOverwrites,
                   manualOverwrites, bankMapping, balanceEntries, mapIn,
                   ruleOrder, synthIn, captured, synthetic, filesSummary,
                   readOut, addOut, overrideRows>>

NextTable == AddRule \/ DeleteMappingRule

SpecTable == InitTable /\ [][NextTable]_vars

(***************************************************************************)
(* Properties of the categorization engine.  They speak about the last     *)
(* call: mapIn is its argument, ledger its result.                         *)
(***************************************************************************)
Mapped == stage = "mapped"

JoinedRules == load_mapping_rules(rules, pairs)

\* The rule's pattern matches the row's text (anchored, case-insensitive).
Matches(rule, row) == match_pattern(row.Transaction, rule.Pattern)

MatchingRules(row) ==
    {k \in 1..Len(JoinedRules) : Matches(JoinedRules[k], row)}

\* The key apply_categorization gives the row (Balance column filled).
EngineKey(row) == create_transaction_key(FillNa(row))

AmountCover(row) ==
    {k \in 1..Len(amountOverwrites) :
        /\ amountOverwrites[k].Transaction = row.Transaction
        /\ amountOverwrites[k].Amount = row.Amount}

ManualCover(row) ==
    {k \in 1..Len(manualOverwrites) :
        manualOverwrites[k].Transaction_Key = EngineKey(row)}

SameCategory(row, x) ==
    row.Category = x.Category /\ row.SubCategory = x.SubCategory

\* Rule k matches the row and every other matching rule has a strictly
\* lower Priority.
StrictlyHighest(k, row) ==
    /\ k \in MatchingRules(row)
    /\ \A j \in MatchingRules(row) \ {k} :
          JoinedRules[j].Priority < JoinedRules[k].Priority

\* What the rule tier leaves in Category / Sub-Category of a row: the input
\* value when no rule matches, else that of a matching rule of maximal
\* Priority.
RuleTierValue(in, out) ==
    IF MatchingRules(in) = {}
    THEN SameCategory(out, in)
    ELSE \E k \in MatchingRules(in) :
            /\ \A j \in MatchingRules(in) :
                  JoinedRules[j].Priority <= JoinedRules[k].Priority
            /\ SameCategory(out, JoinedRules[k])

Opposite(type) == IF type = "In" THEN "Out" ELSE IF type = "Out" THEN "In" ELSE "-"

C2_DirectionGating ==
    Mapped =>
      \A i \in 1..Len(mapIn) :
          ( /\ i <= Len(ledger)
            /\ \A k \in MatchingRules(mapIn[i]) :
                  JoinedRules[k].Direction = Opposite(mapIn[i].Type)
            /\ AmountCover(mapIn[i]) = {}
            /\ ManualCover(mapIn[i]) = {} )
          => SameCategory(ledger[i], mapIn[i])

\* C3: a rule or override with Direction "None" leaves Type unchanged: a
\* row to which only rules and overrides with Direction "None" apply has
\* on output the Type it had on input.
C3_NoneKeepsType ==
    Mapped =>
      \A i \in 1..Len(mapIn) :
          ( /\ i <= Len(ledger)
            /\ mapIn[i].Type \in {"In", "Out"}
            /\ \A k \in MatchingRules(mapIn[i]) :
                  JoinedRules[k].Direction = "None"
            /\ \A k \in AmountCover(mapIn[i]) :
                  amountOverwrites[k].Direction = "None"
            /\ \A k \in ManualCover(mapIn[i]) :
                  manualOverwrites[k].Direction = "None" )
          => ledger[i].Type = mapIn[i].Type

\* C4: an instance override beats an amount override and the rules, an
\* amount override beats the rules, and a row covered by neither override
\* keeps what the rule tier produced.
C4_OverridePrecedence ==
    Mapped =>
      \A i \in 1..Len(mapIn) :
          i <= Len(ledger) =>
            /\ \A k \in ManualCover(mapIn[i]) :
                  SameCategory(ledger[i], manualOverwrites[k])
            /\ ManualCover(mapIn[i]) = {} =>
                  \A k \in AmountCover(mapIn[i]) :
                      SameCategory(ledger[i], amountOverwrites[k])
            /\ (ManualCover(mapIn[i]) = {} /\ AmountCover(mapIn[i]) = {}) =>
                  RuleTierValue(mapIn[i], ledger[i])

\* A row matched by a rule and covered by both overrides carries the
\* instance override's Category, which is not the amount override's.
C4_Witness ==
    /\ Mapped
    /\ \E i \in 1..Len(mapIn) :
          /\ i <= Len(ledger)
          /\ MatchingRules(mapIn[i]) # {}
          /\ AmountCover(mapIn[i]) # {}
          /\ \E k \in ManualCover(mapIn[i]) :
                /\ SameCategory(ledger[i], manualOverwrites[k])
                /\ \A a \in AmountCover(mapIn[i]) :
                      ~SameCategory(ledger[i], amountOverwrites[a])

\* C5: an amount override stored for (t, a) sets its Category and
\* Sub-Category on every row with Transaction t and Amount a, whatever its
\* date (an instance override on the row still wins), and a row that
\* differs from every stored (t, a) in text or amount comes out as it
\* would with an empty amount-override table.
C5_AmountOverrideScope ==
    Mapped =>
      \A i \in 1..Len(mapIn) :
          i <= Len(ledger) =>
            /\ \A k \in 1..Len(amountOverwrites) :
                  ( /\ mapIn[i].Transaction = amountOverwrites[k].Transaction
                    /\ mapIn[i].Amount = amountOverwrites[k].Amount
                    /\ ManualCover(mapIn[i]) = {} )
                  => SameCategory(ledger[i], amountOverwrites[k])
            /\ ( \A k \in 1..Len(amountOverwrites) :
                    \/ mapIn[i].Transaction # amountOverwrites[k].Transaction
                    \/ mapIn[i].Amount # amountOverwrites[k].Amount )
               => <<ledger[i]>> =
                    CategorizeRow(ruleOrder, <<>>,
                                  load_manual_overwrites(manualOverwrites),
                                  mapIn[i])

\* Two rows of different dates share the override's text and amount and
\* both carry its Category.
C5_Witness ==
    /\ Mapped
    /\ Len(mapIn) = 2 /\ Len(ledger) = 2
    /\ mapIn[1].TransactionDate # mapIn[2].TransactionDate
    /\ \E k \in 1..Len(amountOverwrites) :
          \A i \in 1..2 :
              /\ k \in AmountCover(mapIn[i])
              /\ ~SameCategory(mapIn[i], amountOverwrites[k])
              /\ SameCategory(ledger[i], amountOverwrites[k])

\* C6: apply_categorization / map_transactions returns exactly one row per
\* input row.
C6_RowCount == Mapped => Len(ledger) = Len(mapIn)

\* A two-row ledger went through all three tiers, with rows covered and
\* rows not covered by the overrides.
C6_Witness ==
    /\ Mapped
    /\ Len(mapIn) = 2 /\ Len(ledger) = 2
    /\ rules # <<>> /\ amountOverwrites # <<>> /\ manualOverwrites # <<>>
    /\ AmountCover(mapIn[1]) # {} /\ AmountCover(mapIn[2]) = {}
    /\ ManualCover(mapIn[1]) # {} /\ ManualCover(mapIn[2]) = {}

(***************************************************************************)
(* Properties of capture and synthesis.  They speak about the last call:   *)
(* synthIn is its argument, ledger its result, captured and synthetic the  *)
(* frames it got from get_captured_transactions and (after the key         *)
(* deduplication) get_synthetic_transactions.                              *)
(***************************************************************************)
Synthesized == stage = "synthesized"

Occurrences(df, row) == Cardinality({i \in 1..Len(df) : df[i] = row})

\* C7: synthesize_transactions strictly appends: every input row is in the
\* output with all its fields unchanged (as often as it was in the input),
\* and every row the output has in addition has Transaction_Source
\* "Captured" or "Synthetic".
C7_StrictlyAppends ==
    Synthesized =>
      /\ \A r \in Range(synthIn) :
            Occurrences(ledger, r) >= Occurrences(synthIn, r)
      /\ \A r \in Range(ledger) :
            Occurrences(ledger, r) > Occurrences(synthIn, r)
            => r.Transaction_Source \in {"Captured", "Synthetic"}
      /\ Len(ledger) = Len(synthIn) + Len(captured) + Len(synthetic)

\* A call that appended captured and synthetic rows to file rows.
C7_Witness ==
    /\ Synthesized
    /\ Len(synthIn) = 2
    /\ captured # <<>> /\ synthetic # <<>>
    /\ \A r \in Range(synthIn) : r.Transaction_Source = "File"
    /\ Len(ledger) > Len(synthIn)

\* C8: the k-th captured row, produced for account a from source row R,
\* has Amount = -Amount(R), R's two dates, text, Category and Sub-Category,
\* the Bank and Account of a, a null Balance and Transaction_Source
\* "Captured".
C8_MirrorSymmetry ==
    (Synthesized /\ synthIn # <<>>) =>
      LET from == CapturedFrom(synthIn, bankMapping)
          accts == captured_accounts(bankMapping)
      IN  /\ Len(captured) = Len(from)
          /\ \A k \in 1..Len(captured) :
                LET c == captured[k]
                    a == accts[from[k][1]]
                    R == synthIn[from[k][2]]
                IN  /\ c.Amount + R.Amount = 0
                    /\ c.TransactionDate = R.TransactionDate
                    /\ c.EffectiveDate = R.EffectiveDate
                    /\ c.Transaction = R.Transaction
                    /\ c.Category = R.Category
                    /\ c.SubCategory = R.SubCategory
                    /\ c.Bank = a.Bank
                    /\ c.Account = a.Account
                    /\ c.Balance = Null
                    /\ c.Transaction_Source = "Captured"

\* A file row with a non-zero amount and a balance was mirrored.
C8_Witness ==
    /\ Synthesized
    /\ synthIn # <<>>
    /\ \E k \in 1..Len(captured) :
          LET from == CapturedFrom(synthIn, bankMapping)
              R == synthIn[from[k][2]]
          IN  /\ R.Transaction_Source = "File"
              /\ R.Balance # Null
              /\ R.Amount # 0
              /\ captured[k].Amount = 0 - R.Amount
              /\ captured[k].Bank # R.Bank

\* The registry account may receive captured rows: Input "Balance" or
\* "Transactions" and a Category_Source that is not empty.
HasCategorySource(acct) ==
    /\ acct.Input \in {"Balance", "Transactions"}
    /\ acct.Category_Source # <<>>
    /\ Strip(acct.Category_Source) # <<>>

\* (Category, Sub-Category) of the row equals one of the account's pairs.
RowInPairs(acct, row) ==
    LET prs == parse_category_source(acct.Category_Source)
    IN  \E k \in 1..Len(prs) : prs[k] = << <<row.Category>>, <<row.SubCategory>> >>

\* Number of captured rows produced for registry account acct from the
\* i-th input row.
CapturedCount(acct, i) ==
    LET from == CapturedFrom(synthIn, bankMapping)
        accts == captured_accounts(bankMapping)
    IN  Cardinality({k \in 1..Len(from) :
                        /\ accts[from[k][1]].Bank = acct.Bank
                        /\ accts[from[k][1]].Account = acct.Account
                        /\ from[k][2] = i})

ReconciledSum(df, acct, date) ==
    LET rows == SelectSeq(df, LAMBDA r :
                    /\ r.Bank = acct.Bank
                    /\ r.Account = acct.Account
                    /\ r.Transaction_Source \in {"Captured", "Synthetic"}
                    /\ r.TransactionDate # NaT
                    /\ r.TransactionDate <= date)
    IN  SumSeq([i \in 1..Len(rows) |-> rows[i].Amount])

\* C10: after synthesize_transactions, for every Balance account and every
\* balance entry e of it, the Amounts of the account's Captured and
\* Synthetic rows dated on or before e.Date sum to e.Balance.
C10_ReconciliationExact ==
    Synthesized =>
      \A n \in 1..Len(bankMapping) : \A k \in 1..Len(balanceEntries) :
          ( /\ bankMapping[n].Input = "Balance"
            /\ balanceEntries[k].Bank = bankMapping[n].Bank
            /\ balanceEntries[k].Account = bankMapping[n].Account )
          => ReconciledSum(ledger, bankMapping[n], balanceEntries[k].Date)
               = balanceEntries[k].Balance

\* The same, for the first synthesis of a ledger that is not empty.
FirstRunReconciled ==
    (Synthesized /\ runs = 1 /\ synthIn # <<>>) =>
      \A n \in 1..Len(bankMapping) : \A k \in 1..Len(balanceEntries) :
          ( /\ bankMapping[n].Input = "Balance"
            /\ balanceEntries[k].Bank = bankMapping[n].Bank
            /\ balanceEntries[k].Account = bankMapping[n].Account )
          => ReconciledSum(ledger, bankMapping[n], balanceEntries[k].Date)
               = balanceEntries[k].Balance

\* The frame get_synthetic_transactions was given by the last call: the
\* input ledger followed by the captured rows.
SynthArg == synthIn \o captured

\* R: sum of the Amounts of the account's Captured rows in df dated on or
\* before the date.
CapturedSum(df, acct, date) ==
    LET rows == SelectSeq(df, LAMBDA r :
                    /\ r.Bank = acct.Bank
                    /\ r.Account = acct.Account
                    /\ r.Transaction_Source = "Captured"
                    /\ r.TransactionDate # NaT
                    /\ r.TransactionDate <= date)
    IN  SumSeq([i \in 1..Len(rows) |-> rows[i].Amount])

\* The account's entries dated before the date.
EarlierEntries(acct, date) ==
    SelectSeq(balanceEntries, LAMBDA e : /\ e.Bank = acct.Bank
                                         /\ e.Account = acct.Account
                                         /\ e.Date < date)

\* delta of the entry e of the account: e.Balance - (R + S), where S is the
\* sum of the deltas of the account's earlier entries.
RECURSIVE EntryDelta(_, _, _)
EntryDelta(df, acct, e) ==
    LET earlier == EarlierEntries(acct, e.Date)
    IN  e.Balance - ( CapturedSum(df, acct, e.Date)
                      + SumSeq([i \in 1..Len(earlier) |->
                                   EntryDelta(df, acct, earlier[i])]) )

\* The synthetic rows of the last call for the account, dated at the date.
SyntheticAt(acct, date) ==
    SelectSeq(synthetic, LAMBDA r : /\ r.Bank = acct.Bank
                                    /\ r.Account = acct.Account
                                    /\ r.TransactionDate = date)

EntriesOf(acct) ==
    SelectSeq(balanceEntries, LAMBDA e : /\ e.Bank = acct.Bank
                                         /\ e.Account = acct.Account)

\* C11: for every entry of a Balance account exactly one Synthetic row is
\* emitted when delta = entry balance - (R + S) is not zero and none when it
\* is zero; the row is dated at the entry's date, with Amount = delta,
\* Balance = the entry's balance, Category = Sub-Category = "Balance
\* Adjustment" and Type "None"; every Synthetic row belongs to an entry of
\* its account, so none is dated before the account's first entry.
C11_SyntheticEmission ==
    (Synthesized /\ synthIn # <<>>) =>
      /\ \A n \in 1..Len(bankMapping) : \A k \in 1..Len(balanceEntries) :
            LET a == bankMapping[n]
                e == balanceEntries[k]
                delta == EntryDelta(SynthArg, a, e)
                rows == SyntheticAt(a, e.Date)
            IN  (a.Input = "Balance" /\ e.Bank = a.Bank /\ e.Account = a.Account)
                => /\ Len(rows) = IF delta # 0 THEN 1 ELSE 0
                   /\ \A i \in 1..Len(rows) :
                         /\ rows[i].Amount = delta
                         /\ rows[i].EffectiveDate = e.Date
                         /\ rows[i].Balance = <<e.Balance>>
                         /\ rows[i].Category = "Balance Adjustment"
                         /\ rows[i].SubCategory = "Balance Adjustment"
                         /\ rows[i].Type = "None"
                         /\ rows[i].Transaction_Source = "Synthetic"
      /\ \A i \in 1..Len(synthetic) :
            \E n \in 1..Len(bankMapping) : \E k \in 1..Len(balanceEntries) :
                /\ bankMapping[n].Input = "Balance"
                /\ balanceEntries[k].Bank = bankMapping[n].Bank
                /\ balanceEntries[k].Account = bankMapping[n].Account
                /\ synthetic[i].Bank = bankMapping[n].Bank
                /\ synthetic[i].Account = bankMapping[n].Account
                /\ synthetic[i].TransactionDate = balanceEntries[k].Date

\* The spec's example, scaled: an account whose Captured rows sum to a
\* non-zero R by date D has an entry at D with a balance other than R and an
\* entry of the same balance at a later date with no Captured row in
\* between; one row of Amount balance - R is emitted at D and none later.
C11_Witness ==
    /\ Synthesized /\ runs = 1
    /\ \E n \in 1..Len(bankMapping) : \E k, j \in 1..Len(balanceEntries) :
          LET a == bankMapping[n]
              e1 == balanceEntries[k]
              e2 == balanceEntries[j]
              R == CapturedSum(SynthArg, a, e1.Date)
          IN  /\ a.Input = "Balance"
              /\ e1.Bank = a.Bank /\ e1.Account = a.Account
              /\ e2.Bank = a.Bank /\ e2.Account = a.Account
              /\ e1.Date < e2.Date
              /\ e1.Balance = e2.Balance
              /\ R # 0 /\ R # e1.Balance
              /\ CapturedSum(SynthArg, a, e2.Date) = R
              /\ Len(SyntheticAt(a, e1.Date)) = 1
              /\ SyntheticAt(a, e1.Date)[1].Amount = e1.Balance - R
              /\ SyntheticAt(a, e1.Date)[1].Amount # e1.Balance
              /\ SyntheticAt(a, e2.Date) = <<>>
              /\ Len(synthetic) = 1

\* The two frames hold the same rows, each as often in one as in the other.
SameRows(df1, df2) ==
    /\ Len(df1) = Len(df2)
    /\ \A r \in Range(df1) \cup Range(df2) :
          Occurrences(df1, r) = Occurrences(df2, r)

\* C12: synthesis is idempotent under re-run: with registry and balance
\* entries unchanged, a synthesize_transactions call of the sidebar on a
\* session ledger that already went through synthesis returns the rows it
\* was given; no second Captured mirror and no further Synthetic row is
\* appended.
C12_SynthesisIdempotent ==
    (Synthesized /\ runs >= 2) =>
      /\ SameRows(ledger, synthIn)
      /\ captured = <<>>
      /\ synthetic = <<>>

(***************************************************************************)
(* Properties of ingestion.  ledger is what the last ingest_transactions   *)
(* call returned, readOut holds the last RawFileReader.read_files call.    *)
(***************************************************************************)
Ingested == stage = "ingested"

\* The six fields the Transaction Key is made from.
SixTuple(r) ==
    <<r.TransactionDate, r.Bank, r.Account, r.Transaction, r.Amount, r.Balance>>

\* The rows found in the listed files, in read order.
ListedRows == raw_df(filesSummary, bankMapping)

\* C13: the ledger ingest_transactions returns has exactly one row, the
\* first in read order, for each distinct (Transaction Date, Bank, Account,
\* Transaction, Amount, Balance) found in the listed files, so rows that
\* differ in one of the six fields all survive; listing the same files
\* twice gives as many rows as listing them once.
C13_IngestionDedup ==
    Ingested =>
      /\ \A i \in 1..Len(ListedRows) :
            LET same == {j \in 1..Len(ListedRows) :
                            SixTuple(ListedRows[j]) = SixTuple(ListedRows[i])}
                first == CHOOSE j \in same : \A m \in same : j <= m
                hits == {k \in 1..Len(ledger) :
                            SixTuple(ledger[k]) = SixTuple(ListedRows[i])}
            IN  /\ Cardinality(hits) = 1
                /\ \A k \in hits : ledger[k] = ListedRows[first]
      /\ \A k \in 1..Len(ledger) :
            \E i \in 1..Len(ListedRows) : ledger[k] = ListedRows[i]
      /\ Len(ingest_transactions(filesSummary \o filesSummary, bankMapping))
            = Len(ledger)

\* The rows of the last read_files call's files, as (file position, row
\* position) pairs, and whether the reader is to keep them.
ReaderCall == readOut[1]

DistinctNames(file_paths) ==
    \A p, q \in 1..Len(file_paths) :
        p # q => file_paths[p].File_Name # file_paths[q].File_Name

\* The tuple of row i of file p occurs in a readable file listed before p.
InEarlierFile(file_paths, p, i) ==
    \E q \in 1..(p - 1) :
        /\ file_paths[q].readable
        /\ \E j \in 1..Len(file_paths[q].rows) :
              dedup_cols(file_paths[q].rows[j]) = dedup_cols(file_paths[p].rows[i])

\* How often row i of file p is in the frame read_files returned.
ReturnedCount(file_paths, df, p, i) ==
    Cardinality({k \in 1..Len(df) :
        /\ df[k].Source_File = <<file_paths[p].File_Name>>
        /\ df[k].Source_RowNo = read_single_file(file_paths[p],
                                     get_signature(ReaderCall.bank,
                                                   ReaderCall.account)[1])[i].Source_RowNo
        /\ dedup_cols(df[k]) = dedup_cols(file_paths[p].rows[i])})

\* C14: read_files keeps every row of the first file in which its
\* (Transaction Date, Effective Date, Transaction, Amount, Balance) occurs,
\* repeated occurrences within that file included and nulls allowed, and
\* drops the rows carrying the tuple in a later file; a row whose tuple is
\* in one file only is never dropped.
C14_MultiFileDedup ==
    ( /\ readOut # <<>>
      /\ ~ReaderCall.raised
      /\ DistinctNames(ReaderCall.file_paths) ) =>
      \A p \in 1..Len(ReaderCall.file_paths) :
          ReaderCall.file_paths[p].readable =>
            \A i \in 1..Len(ReaderCall.file_paths[p].rows) :
                ReturnedCount(ReaderCall.file_paths, ReaderCall.df, p, i) =
                  IF InEarlierFile(ReaderCall.file_paths, p, i) THEN 0 ELSE 1

\* The file can be parsed: its account has a module and the module reads it.
GoodFile(f) == ~parse_excel_file_raises(bankMapping, f)

\* C15: a listed file that cannot be read or parsed, or whose (Bank,
\* Account) has no module, is skipped alone: ingest_transactions does not
\* fail, and every row of every other listed file is in the returned
\* ledger (itself or the row with the same Transaction Key that was read
\* before it).
C15_FailureIsolation ==
    /\ stage # "ingest_failed"
    /\ Ingested =>
          \A n \in 1..Len(filesSummary) :
              GoodFile(filesSummary[n]) =>
                \A i \in 1..Len(parse_excel_file(bankMapping, filesSummary[n])) :
                    \E k \in 1..Len(ledger) :
                        create_transaction_key(ledger[k]) =
                          create_transaction_key(
                            parse_excel_file(bankMapping, filesSummary[n])[i])

(***************************************************************************)
(* Properties of add_mapping_rule.  addOut holds the last call: its        *)
(* arguments, whether it raised, and the tables it found.                  *)
(***************************************************************************)
AddCall == addOut[1]

\* The pattern equals a pattern the call found stored, ignoring case.
DuplicatePattern(call) ==
    \E i \in 1..Len(call.rules) :
        Lower(call.rules[i].Pattern) = Lower(call.pattern)

TablesUntouched(call) == rules = call.rules /\ pairs = call.pairs

MissingField(call) ==
    \/ call.pattern = <<>>
    \/ call.category = ""
    \/ call.sub_category = ""
    \/ call.direction = ""

\* C17: add_mapping_rule with an empty Pattern, Category, Sub-Category or
\* Direction raises before anything is written: the tables stay as they
\* were (no pair is created), and no stored rule has an empty pattern.
C17_EmptyPatternRejected ==
    /\ (addOut # <<>> /\ MissingField(AddCall)) =>
          (AddCall.raised /\ TablesUntouched(AddCall))
    /\ \A i \in 1..Len(rules) : rules[i].Pattern # <<>>

\* A call with an empty pattern and a (Category, Sub-Category, Direction)
\* that is not stored was rejected, with rules stored before it.
C17_Witness ==
    /\ addOut # <<>>
    /\ AddCall.pattern = <<>>
    /\ AddCall.category # ""
    /\ AddCall.raised
    /\ rules # <<>>
    /\ \A k \in 1..Len(pairs) :
          <<pairs[k].Category, pairs[k].SubCategory, pairs[k].Direction>>
            # <<AddCall.category, AddCall.sub_category, AddCall.direction>>
    /\ TablesUntouched(AddCall)

HasWildcard(pattern) == \E i \in 1..Len(pattern) : pattern[i] = "*"

\* C18: a stored rule has Priority len(pattern) + 100 when its pattern has
\* no "*" and len(pattern) when it has one, and every rule without "*" has
\* a strictly higher Priority than every rule with "*", whatever the
\* lengths of the patterns.
C18_PriorityDerivation ==
    /\ \A i \in 1..Len(rules) :
          rules[i].Priority = IF HasWildcard(rules[i].Pattern)
                              THEN Len(rules[i].Pattern)
                              ELSE Len(rules[i].Pattern) + 100
    /\ \A i, j \in 1..Len(rules) :
          (~HasWildcard(rules[i].Pattern) /\ HasWildcard(rules[j].Pattern))
          => rules[i].Priority > rules[j].Priority

PairOf(p) == <<p.Category, p.SubCategory, p.Direction>>

C19_WitnessCreate ==
    /\ addOut # <<>>
    /\ ~AddCall.raised
    /\ Len(pairs) = 2 /\ Len(AddCall.pairs) = 1
    /\ pairs[1].Category = pairs[2].Category
    /\ pairs[1].SubCategory = pairs[2].SubCategory
    /\ pairs[1].Pair_ID # pairs[2].Pair_ID

(***************************************************************************)
(* Properties of the override form.                                        *)
(***************************************************************************)
\* The ledger row x is the row r an override was created from: the fields
\* that neither mapping nor synthesis changes are those of r.
SameRow(x, r) ==
    /\ SixTuple(x) = SixTuple(r)
    /\ x.Source_File = r.Source_File
    /\ x.Source_RowNo = r.Source_RowNo
    /\ x.Transaction_Source = r.Transaction_Source

\* The stored instance overrides without the k-th.
WithoutOverride(k) ==
    SelectSeq(load_manual_overwrites(manualOverwrites),
              LAMBDA o : ManualKey(o) # ManualKey(manualOverwrites[k]))

\* C20: an instance override stored under the key the form computed for
\* the ledger row r is applied by apply_categorization to r, also when r
\* has no Balance, and to no other row: every other row comes out as it
\* would without the override.
C20_InstanceOverrideKey ==
    Mapped =>
      \A k \in 1..Len(overrideRows) : \A i \in 1..Len(mapIn) :
          i <= Len(ledger) =>
            IF SameRow(mapIn[i], overrideRows[k])
            THEN SameCategory(ledger[i], manualOverwrites[k])
            ELSE <<ledger[i]>> =
                   CategorizeRow(ruleOrder,
                                 load_amount_overwrites(amountOverwrites),
                                 WithoutOverride(k), mapIn[i])

(***************************************************************************)
(* C21.  add_balance_entry for a currency other than EUR always writes the *)
(* entry of the given Bank, Account and Date; when the rate lookup failed  *)
(* (exception, error status or no rate in the answer) the entry holds the  *)
(* original amount as Balance (1:1 rate) and records Original_Balance and  *)
(* Original_Currency.  The call has no path that raises.                   *)
(***************************************************************************)
BalanceCall == callOut # <<>> /\ callOut[1].op = "add_balance_entry"

LookupFailed(response) ==
    \/ response.raises
    \/ response.status_code # 200
    \/ response.rate = Null

OriginalAmount(call) ==
    IF call.original_balance = Null THEN call.balance
    ELSE call.original_balance[1]

EntryWritten(call, e) ==
    /\ e.Bank = call.bank
    /\ e.Account = call.account
    /\ e.Date = call.date

DataRowOf(file_paths, r, k) ==
    \E p \in 1..Len(file_paths) :
        /\ file_paths[p].readable
        /\ r.Source_File = <<file_paths[p].File_Name>>
        /\ k \in 1..Len(file_paths[p].rows)
        /\ dedup_cols(r) = dedup_cols(file_paths[p].rows[k])

C22_SourceRowNumbering ==
    ( /\ readOut # <<>>
      /\ ~ReaderCall.raised
      /\ DistinctNames(ReaderCall.file_paths) ) =>
        \A i \in 1..Len(ReaderCall.df) :
            DataRowOf(ReaderCall.file_paths, ReaderCall.df[i],
                      ReaderCall.df[i].Source_RowNo[1])

(***************************************************************************)
(* C23.  After add_amount_override(t, a, c, s, d) the dict that            *)
(* load_amount_overwrites returns holds (c, s, d) under the key (t, a);    *)
(* after remove_amount_override(t, a) it holds nothing under (t, a); both  *)
(* calls leave what is stored under every other key as it was.             *)
(***************************************************************************)
AmountCall == callOut[1]

StoredUnder(file, key) ==
    SelectSeq(load_amount_overwrites(file), LAMBDA r : AmountKey(r) = key)

OverrideKeys == OverrideTexts \X OverrideAmounts

C23_AmountOverrideRoundTrip ==
    (callOut # <<>> /\ AmountCall.op \in {"add_amount_override",
                                          "remove_amount_override"}) =>
        LET key == <<AmountCall.transaction, AmountCall.amount>>
        IN  /\ AmountCall.op = "add_amount_override" =>
                 StoredUnder(amountOverwrites, key)
                   = << [Transaction |-> AmountCall.transaction,
                         Amount |-> AmountCall.amount,
                         Category |-> AmountCall.category,
                         SubCategory |-> AmountCall.sub_category,
                         Direction |-> AmountCall.direction] >>
            /\ AmountCall.op = "remove_amount_override" =>
                 StoredUnder(amountOverwrites, key) = <<>>
            /\ \A other \in OverrideKeys \ {key} :
                 StoredUnder(amountOverwrites, other)
                   = StoredUnder(AmountCall.before, other)

(***************************************************************************)
(* C24.  apply_categorization is idempotent: applied again to its own       *)
(* result, with the same rules in the same order and the same override     *)
(* tables, it returns the same Category, Sub-Category and Type in every    *)
(* row.                                                                    *)
(***************************************************************************)
MappedAgain ==
    apply_categorization(ledger, ruleOrder, amountOverwrites, manualOverwrites)

C24_CategorizationIdempotent ==
    Mapped =>
        /\ Len(MappedAgain) = Len(ledger)
        /\ \A i \in 1..Len(ledger) :
              /\ MappedAgain[i].Category = ledger[i].Category
              /\ MappedAgain[i].SubCategory = ledger[i].SubCategory
              /\ MappedAgain[i].Type = ledger[i].Type

\* A row without Balance was categorized by its instance override, next to
\* a row categorized by a rule.
C24_Witness ==
    /\ Mapped
    /\ \E i \in 1..Len(mapIn) :
          /\ mapIn[i].Balance = Null
          /\ mapIn[i].Category = "Uncategorized"
          /\ \E k \in ManualCover(mapIn[i]) :
                /\ ledger[i].Category = manualOverwrites[k].Category
                /\ ledger[i].Type = manualOverwrites[k].Direction
    /\ \E i \in 1..Len(mapIn) :
          /\ ManualCover(mapIn[i]) = {}
          /\ AmountCover(mapIn[i]) = {}
          /\ mapIn[i].Category = "Uncategorized"
          /\ ledger[i].Category # "Uncategorized"

(***************************************************************************)
(* C25.  apply_categorization returns Transaction Date, Bank, Account,     *)
(* Transaction, Amount and Balance of every row as given, a Balance that   *)
(* is null staying null.                                                   *)
(***************************************************************************)
C25_CategorizationFrame ==
    Mapped =>
        /\ Len(ledger) = Len(mapIn)
        /\ \A i \in 1..Len(ledger) :
              /\ ledger[i].TransactionDate = mapIn[i].TransactionDate
              /\ ledger[i].Bank = mapIn[i].Bank
              /\ ledger[i].Account = mapIn[i].Account
              /\ ledger[i].Transaction = mapIn[i].Transaction
              /\ ledger[i].Amount = mapIn[i].Amount
              /\ ledger[i].Balance = mapIn[i].Balance

(***************************************************************************)
(* C26.  Applying a new rule at once re-evaluates only the rows of the     *)
(* persisted ledger that are 'Uncategorized' and match a new pattern (with *)
(* the rule's direction as Type when it is not 'None'): every other row is *)
(* written back with all its fields as they were, wherever it sits, and a  *)
(* re-evaluated row changes in Category, Sub-Category and Type only.       *)
(***************************************************************************)
ApplyCall == callOut[1]

Targeted(row) ==
    /\ row.Category = "Uncategorized"
    /\ \E k \in 1..Len(ApplyCall.rules_list) :
          /\ match_pattern(row.Transaction, ApplyCall.rules_list[k].pattern)
          /\ \/ ApplyCall.rules_list[k].direction = "None"
             \/ row.Type = ApplyCall.rules_list[k].direction

SameButCategory(x, r) ==
    x = [r EXCEPT !.Category = x.Category, !.SubCategory = x.SubCategory,
                  !.Type = x.Type]

C26_ApplyNewRuleFrame ==
    (callOut # <<>> /\ ApplyCall.op \in {"apply_new_rule",
                                         "apply_new_rules_list"}) =>
        /\ Len(ledger) = Len(ApplyCall.before)
        /\ \A i \in 1..Len(ledger) :
              IF Targeted(ApplyCall.before[i])
              THEN SameButCategory(ledger[i], ApplyCall.before[i])
              ELSE ledger[i] = ApplyCall.before[i]

(***************************************************************************)
(* C27.  In the ledger synthesize_transactions returns no two rows with    *)
(* Transaction_Source 'Synthetic' share a Transaction Key, also when the   *)
(* ledger it was given holds the Synthetic rows of an earlier run over the *)
(* same balance entries.                                                   *)
(***************************************************************************)
SyntheticRows(df) ==
    {i \in 1..Len(df) : df[i].Transaction_Source = "Synthetic"}

C27_SyntheticUniqueByKey ==
    Synthesized =>
        \A i, j \in SyntheticRows(ledger) :
            i # j => create_transaction_key(ledger[i])
                       # create_transaction_key(ledger[j])

(***************************************************************************)
(* C28.  When the k-th balance entry of an account (entries by ascending   *)
(* date) is processed, running_sum is the sum of the Amounts of all of the *)
(* account's Captured rows dated on or before the entry's date, each added *)
(* once: trans_idx is the number of those rows.                            *)
(***************************************************************************)
CapturedUpTo(df, acct, date) ==
    {i \in 1..Len(df) : /\ df[i].Bank = acct.Bank
                        /\ df[i].Account = acct.Account
                        /\ df[i].Transaction_Source = "Captured"
                        /\ df[i].TransactionDate # NaT
                        /\ df[i].TransactionDate <= date}

SumOver(df, S) ==
    LET rows == SelectSeq([i \in 1..Len(df) |-> <<i, df[i].Amount>>],
                          LAMBDA p : p[1] \in S)
    IN  SumSeq([i \in 1..Len(rows) |-> rows[i][2]])

LoopOf(acct) ==
    RunningSums(AccountEntries(balanceEntries, acct),
                AccountTransactions(SynthArg, acct), 1, <<0, 0>>)

C28_TwoPointerMerge ==
    (Synthesized /\ synthIn # <<>>) =>
        \A n \in 1..Len(bankMapping) :
            bankMapping[n].Input = "Balance" =>
                LET acct == bankMapping[n]
                    es == AccountEntries(balanceEntries, acct)
                IN  \A k \in 1..Len(es) :
                        LET upTo == CapturedUpTo(SynthArg, acct, es[k].Date)
                        IN  /\ LoopOf(acct)[k][2] = SumOver(SynthArg, upTo)
                            /\ LoopOf(acct)[k][1] = Cardinality(upTo)

\* An account with two entries: the first consumes a Captured row, the
\* second one more, and a Captured row dated after the first entry exists.
C28_Witness ==
    /\ Synthesized
    /\ synthIn # <<>>
    /\ \E n \in 1..Len(bankMapping) :
          /\ bankMapping[n].Input = "Balance"
          /\ Len(LoopOf(bankMapping[n])) = 2
          /\ LoopOf(bankMapping[n])[1][1] >= 1
          /\ LoopOf(bankMapping[n])[2][1] > LoopOf(bankMapping[n])[1][1]
          /\ LoopOf(bankMapping[n])[1][2] # 0
          /\ LoopOf(bankMapping[n])[2][2] # LoopOf(bankMapping[n])[1][2]

(***************************************************************************)
(* C29.  After any sequence of add_balance_entry and remove_balance_entry  *)
(* calls from an empty table, the table holds at most one entry per (Bank, *)
(* Account, Date); add_balance_entry for a (Bank, Account, Date) that has  *)
(* an entry replaces its Balance without adding a row; and                 *)
(* remove_balance_entry removes the entry of its (Bank, Account, Date) and *)
(* no other.                                                               *)
(***************************************************************************)
EntryCall == callOut[1]

EntryKey(e) == <<e.Bank, e.Account, e.Date>>

CallKey == <<EntryCall.bank, EntryCall.account, EntryCall.date>>

C29_BalanceEntryUpsert ==
    /\ \A i, j \in 1..Len(balanceEntries) :
          i # j => EntryKey(balanceEntries[i]) # EntryKey(balanceEntries[j])
    /\ (callOut # <<>> /\ EntryCall.op = "add_balance_entry") =>
          /\ (\E i \in 1..Len(EntryCall.before) :
                  EntryKey(EntryCall.before[i]) = CallKey)
             => Len(balanceEntries) = Len(EntryCall.before)
          /\ \A i \in 1..Len(EntryCall.before) :
                EntryKey(EntryCall.before[i]) # CallKey
                => balanceEntries[i] = EntryCall.before[i]
    /\ (callOut # <<>> /\ EntryCall.op = "remove_balance_entry") =>
          balanceEntries = SelectSeq(EntryCall.before,
                                     LAMBDA e : EntryKey(e) # CallKey)

(***************************************************************************)
(* C30  After any sequence of add_mapping_rule and delete_mapping_rule      *)
(* calls on tables that start empty, no two stored rules share a Rule_ID,  *)
(* the Pair_ID of every stored rule is the Pair_ID of a stored pair, and a *)
(* call delete_mapping_rule(id) removes exactly the rule with that Rule_ID *)
(* and leaves every other rule and every pair as it was.                   *)
(***************************************************************************)
TableCall == callOut[1]

UniqueRuleIds ==
    \A i, j \in 1..Len(rules) :
        rules[i].Rule_ID = rules[j].Rule_ID => i = j

PairsStored ==
    \A i \in 1..Len(rules) :
        \E j \in 1..Len(pairs) : pairs[j].Pair_ID = rules[i].Pair_ID

DeletedExactly ==
    /\ rules = SelectSeq(TableCall.rules,
                         LAMBDA r : r.Rule_ID # TableCall.rule_id)
    /\ pairs = TableCall.pairs

C30_RuleTableIntegrity ==
    stage = "tables" =>
        /\ UniqueRuleIds
        /\ PairsStored
        /\ (callOut # <<>> /\ TableCall.op = "delete_mapping_rule")
              => DeletedExactly

====
